---- MODULE Spec2Model ----
(***************************************************************************)
(* Session-lifecycle hooks of cogmemai-mcp (src/src/cli.ts): the           *)
(* pre-compaction, prompt-submit (context-reload) and stop hooks, the flag *)
(* directory ~/.cogmemai they coordinate through, and the remote calls     *)
(* they issue.  Every hook invocation is a separate OS process; a process  *)
(* is split at its awaits (the remote calls), which is where another       *)
(* process or the clock can get in between.                                *)
(***************************************************************************)
EXTENDS Integers, Sequences, FiniteSets, TLC

(***************************************************************************)
(* Program constants (src/src/config.ts).                                  *)
(***************************************************************************)
SESSION_EXPIRY_SECONDS == 14400
COMPACTION_FLAG_MAX_AGE == 3600
STALE_FLAG_MAX_AGE == 86400
SUMMARY_minTranscriptLines == 8
SUMMARY_minUserMessages == 2
SUMMARY_cooldownSeconds == 1800
SMART_RECALL_COOLDOWN == 180
SMART_RECALL_MIN_MSG_LENGTH == 30
SMART_RECALL_MIN_MATCH_SCORE == 2
AUTO_EXTRACT_COOLDOWN == 7200
AUTO_EXTRACT_MIN_USER_MESSAGES == 3
AUTO_EXTRACT_MIN_MSG_LENGTH == 30
\* cli.ts: slice(0, 64) of a sanitized key
MaxKeyLen == 64
\* cli.ts: max age of the topic cache in trySmartRecall
TOPIC_CACHE_MAX_AGE == 86400
\* cli.ts: matches.slice(0, 5) recorded as last_smart_topics
MaxInjectedTopics == 5
\* cli.ts: getLastUserMessage scans the last 30 lines, needs text.length > 10
LastUserScanLines == 30
MinUserTextLen == 10
\* cli.ts: buildExtractionPayload drops texts shorter than 15
ExtractMinTextLen == 15

(***************************************************************************)
(* Bounds of the model.                                                    *)
(***************************************************************************)
\* Unix time (seconds) at which the model starts
StartTime == 100000
\* number of clock advances in one behaviour
MaxTicks == 2
MaxLines == 3
MaxIdTail == 2
MaxTopics == 3
ContextSlack == 12

Min(a, b) == IF a < b THEN a ELSE b
Max(a, b) == IF a > b THEN a ELSE b

(***************************************************************************)
(* Identifiers are sequences of characters.                                *)
(***************************************************************************)
SafeChars == {"a", "b", "u", "n", "k", "o", "w", "p", "r", "j", "_", "-"}
\* variant of UnknownKey: a fallback with a character outside the safe set
UnknownKeyWithSpace == <<"n", "o", " ", "k", "n", "o", "w", "n">>

UnknownKey == <<"u", "n", "k", "n", "o", "w", "n">>

Truncate(s, n) == SubSeq(s, 1, Min(Len(s), n))

IsSafeChar(c) == c \in SafeChars

\* flagPath / sessionMarkerPath / summaryFlagPath:
\*   sessionId.replace(/[^a-zA-Z0-9_-]/g, '').slice(0, 64) || 'unknown'
SessionKey(sessionId) ==
  LET safe == Truncate(SelectSeq(sessionId, IsSafeChar), MaxKeyLen)
  IN IF safe = <<>> THEN UnknownKey ELSE safe

\* topicCachePath: projectId.replace(/[^a-zA-Z0-9_-]/g, '_').slice(0, 64)
ProjectKey(projectId) ==
  Truncate([i \in 1..Len(projectId) |->
              IF IsSafeChar(projectId[i]) THEN projectId[i] ELSE "_"], MaxKeyLen)

\* the names of the files kept per session and per project
flagPath(sessionId) == <<"compacted", SessionKey(sessionId)>>
sessionMarkerPath(sessionId) == <<"session", SessionKey(sessionId)>>
summaryFlagPath(sessionId) == <<"summary", SessionKey(sessionId)>>
topicCachePath(projectId) == <<"topics", ProjectKey(projectId)>>

\* session ids the host hands to the hooks; <<>> is what readHookInput
\* yields for missing or malformed stdin
SessionIds == {<<>>, <<"a">>, <<"b">>}
Keys == {SessionKey(s) : s \in SessionIds}
ProjectIds == {<<"p", "r", "j">>}

(***************************************************************************)
(* Texts.  A text is modelled by its trimmed length and by the tokens that *)
(* message.toLowerCase().split(/[\s.,;:!?...]+/) yields; a token is a      *)
(* sequence of characters.                                                 *)
(***************************************************************************)
W_the == <<"t", "h", "e">>
W_ok == <<"o", "k">>
W_42 == <<"4", "2">>
W_stripe == <<"s", "t", "r", "i", "p", "e">>
W_webhook == <<"w", "e", "b", "h", "o", "o", "k">>
W_payments == <<"p", "a", "y", "m", "e", "n", "t", "s">>
W_hook == <<"h", "o", "o", "k">>
W_trip == <<"t", "r", "i", "p">>
W_web == <<"w", "e", "b">>
W_docker == <<"d", "o", "c", "k", "e", "r">>
W_deploy == <<"d", "e", "p", "l", "o", "y">>

Digits == {"0", "1", "2", "3", "4", "5", "6", "7", "8", "9"}

\* STOP_WORDS, the members that occur in the vocabulary above
STOP_WORDS == {W_the, W_ok}

EmptyText == [len |-> 0, words |-> <<>>]
M_ok == [len |-> 2, words |-> <<W_ok>>]
M_ten == [len |-> 10, words |-> <<W_the, W_web>>]
M_mid == [len |-> 20, words |-> <<W_the, W_docker>>]
M_thirty == [len |-> 30, words |-> <<W_deploy, W_the, W_web>>]
M_stripe == [len |-> 42, words |-> <<W_the, W_stripe, W_webhook, W_42, W_stripe>>]
M_deploy == [len |-> 31, words |-> <<W_docker, W_deploy, W_the>>]
M_reply == [len |-> 60, words |-> <<W_the, W_deploy>>]

RECURSIVE Dedupe(_)
\* [...new Set(keywords)]: first occurrences, in order
Dedupe(seq) ==
  IF seq = <<>> THEN <<>>
  ELSE LET init == Dedupe(SubSeq(seq, 1, Len(seq) - 1))
           last == seq[Len(seq)]
       IN IF \E i \in 1..Len(init) : init[i] = last THEN init ELSE Append(init, last)

IsNumeric(w) == Len(w) >= 1 /\ \A i \in 1..Len(w) : w[i] \in Digits

IsKeyword(w) == Len(w) >= 3 /\ w \notin STOP_WORDS /\ ~IsNumeric(w)

extractKeywords(message) == Dedupe(SelectSeq(message.words, IsKeyword))

\* a.includes(b)
Includes(a, b) ==
  \E i \in 1..(Len(a) - Len(b) + 1) : SubSeq(a, i, i + Len(b) - 1) = b

KeywordMatches(kw, topic) ==
  \E j \in 1..Len(topic.keywords) :
     LET topicKw == topic.keywords[j]
     IN kw = topicKw \/ Includes(topicKw, kw) \/ Includes(kw, topicKw)

\* variant of matchCount: every pair of a keyword and a topic keyword that
\* match is counted
matchCountPairs(keywords, topic) ==
  Cardinality({<<i, j>> \in (1..Len(keywords)) \X (1..Len(topic.keywords)) :
                 LET kw == keywords[i]
                     topicKw == topic.keywords[j]
                 IN kw = topicKw \/ Includes(topicKw, kw) \/ Includes(kw, topicKw)})

matchCount(keywords, topic) ==
  Cardinality({i \in 1..Len(keywords) : KeywordMatches(keywords[i], topic)})

RECURSIVE InsertByScore(_, _)
\* position of m in a stable descending sort: after every entry whose
\* score is not smaller
InsertByScore(sorted, m) ==
  IF sorted = <<>> THEN <<m>>
  ELSE IF sorted[Len(sorted)].score >= m.score THEN Append(sorted, m)
  ELSE Append(InsertByScore(SubSeq(sorted, 1, Len(sorted) - 1), m), sorted[Len(sorted)])

RECURSIVE SortByScore(_)
SortByScore(ms) ==
  IF ms = <<>> THEN <<>>
  ELSE InsertByScore(SortByScore(SubSeq(ms, 1, Len(ms) - 1)), ms[Len(ms)])

RECURSIVE ScoredTopics(_, _)
ScoredTopics(keywords, topicIndex) ==
  IF topicIndex = <<>> THEN <<>>
  ELSE LET init == ScoredTopics(keywords, SubSeq(topicIndex, 1, Len(topicIndex) - 1))
           topic == topicIndex[Len(topicIndex)]
           n == matchCount(keywords, topic)
       IN IF n >= 1
          THEN Append(init, [subject |-> topic.subject, score |-> n * topic.avg_importance])
          ELSE init

matchTopics(keywords, topicIndex) == SortByScore(ScoredTopics(keywords, topicIndex))

Subjects(ms) == [i \in 1..Len(ms) |-> ms[i].subject]
Range(seq) == {seq[i] : i \in 1..Len(seq)}

(***************************************************************************)
(* Topic indexes the remote service can return (cached by the              *)
(* get_project_context tool).                                              *)
(***************************************************************************)
Topic(s, kws, imp) == [subject |-> s, keywords |-> kws, count |-> 1, avg_importance |-> imp]

IndexLarge ==
  << Topic("t1", <<W_stripe>>, 9),
     Topic("t2", <<W_webhook, W_stripe>>, 4),
     Topic("t3", <<W_stripe, W_payments>>, 7),
     Topic("t4", <<W_hook>>, 6),
     Topic("t5", <<W_trip>>, 5),
     Topic("t6", <<W_web>>, 4),
     Topic("infra", <<W_docker>>, 2) >>

TopicIndexes == {IndexLarge}

(***************************************************************************)
(* Transcripts: one entry per line of the JSONL file.                      *)
(* json: whether JSON.parse accepts the line and its value is an object;   *)
(* role: message.role or role, "none" when the entry has neither;          *)
(* content: whether the entry has a content; text: extractText of the      *)
(* content, empty when there is none; tool: the file paths of the          *)
(* content's tool_use blocks.                                              *)
(***************************************************************************)
BadLine ==
  [json |-> FALSE, role |-> "none", content |-> FALSE, text |-> EmptyText, tool |-> {}]
NoMsg ==
  [json |-> TRUE, role |-> "none", content |-> FALSE, text |-> EmptyText, tool |-> {}]
NoContent ==
  [json |-> TRUE, role |-> "user", content |-> FALSE, text |-> EmptyText, tool |-> {}]
U(m) == [json |-> TRUE, role |-> "user", content |-> TRUE, text |-> m, tool |-> {}]
A(m) == [json |-> TRUE, role |-> "assistant", content |-> TRUE, text |-> m, tool |-> {}]
T(m, file) ==
  [json |-> TRUE, role |-> "assistant", content |-> TRUE, text |-> m, tool |-> {file}]
Sys == [json |-> TRUE, role |-> "system", content |-> TRUE, text |-> EmptyText, tool |-> {}]

TranscriptFiles ==
  [ t_short |-> << U(M_stripe), A(M_reply) >>,
    t_two   |-> << U(M_stripe), A(M_reply), BadLine, A(M_reply),
                   U(M_mid), A(M_reply), Sys, A(M_reply) >>,
    t_rich  |-> << U(M_deploy), A(M_reply), U(M_deploy), A(M_reply),
                   BadLine, A(M_reply), U(M_stripe), A(M_reply), U(M_ok) >>,
    t_next  |-> << U(M_deploy), A(M_reply), U(M_stripe), A(M_reply),
                   BadLine, A(M_reply), U(M_stripe), A(M_reply), U(M_deploy) >>,
    t_seven |-> << U(M_stripe), A(M_reply), U(M_deploy), A(M_reply),
                   BadLine, A(M_reply), Sys >>,
    t_oneuser |-> << U(M_stripe), A(M_reply), U(M_ok), A(M_reply),
                     U(M_ten), A(M_reply), BadLine, A(M_reply) >>,
    t_thirty |-> << U(M_stripe), A(M_reply), U(M_thirty), A(M_reply),
                    U(M_thirty), A(M_reply), BadLine, A(M_reply) >> ]

\* transcript_path of the hook input: "" when stdin gave none, "missing"
\* for a path that cannot be read
TranscriptPaths ==
  {"", "missing", "t_short", "t_two", "t_rich", "t_next", "t_seven", "t_oneuser",
   "t_thirty"}

Readable(path) == path \in DOMAIN TranscriptFiles

RECURSIVE LastUserFrom(_, _, _)
LastUserFrom(lines, i, low) ==
  IF i < low THEN EmptyText
  ELSE IF lines[i].json /\ lines[i].role = "user" /\ lines[i].text.len > MinUserTextLen
       THEN [lines[i].text EXCEPT !.len = Min(@, 500)]
       ELSE LastUserFrom(lines, i - 1, low)

getLastUserMessageIn(lines) ==
  LastUserFrom(lines, Len(lines), Max(1, Len(lines) - LastUserScanLines + 1))

getLastUserMessage(path) ==
  IF ~Readable(path) THEN EmptyText ELSE getLastUserMessageIn(TranscriptFiles[path])

(***************************************************************************)
(* The transcript scanners, over the lines of a transcript that has been   *)
(* read.  Each loop body sits in its own try/catch: a line on which        *)
(* JSON.parse throws is caught there and the loop goes on to the next      *)
(* line.  A text cut to n characters with '...' appended has length n + 3. *)
(***************************************************************************)
SummaryTaskLen == 30
SummaryRequestLen == 20
SummaryExchangeLen == 15
FinalResponseLen == 20

Cut(text, n) == IF text.len > n THEN [text EXCEPT !.len = n + 3] ELSE text

\* getMsg(entry) is not null: the entry has a role and a content
IsMsg(line) == line.role # "none" /\ line.content

RECURSIVE CountUserMessagesUntilThrow(_, _)
\* variant of CountUserMessages: one try/catch around the whole loop
CountUserMessagesUntilThrow(lines, i) ==
  IF i > Len(lines) THEN 0
  ELSE IF ~lines[i].json THEN 0
  ELSE (IF lines[i].role = "user" /\ lines[i].text.len > MinUserTextLen THEN 1 ELSE 0)
         + CountUserMessagesUntilThrow(lines, i + 1)

RECURSIVE CountUserMessages(_, _)
\* the loop of checkSessionSubstantial from line i on
CountUserMessages(lines, i) ==
  IF i > Len(lines) THEN 0
  ELSE IF ~lines[i].json THEN CountUserMessages(lines, i + 1)
  ELSE (IF lines[i].role = "user" /\ lines[i].text.len > MinUserTextLen THEN 1 ELSE 0)
         + CountUserMessages(lines, i + 1)

checkSessionSubstantialIn(lines) ==
  IF Len(lines) < SUMMARY_minTranscriptLines THEN FALSE
  ELSE CountUserMessages(lines, 1) >= SUMMARY_minUserMessages

RECURSIVE FirstTask(_, _, _)
\* the first user text longer than 30 characters among lines i..high
FirstTask(lines, i, high) ==
  IF i > high THEN EmptyText
  ELSE IF ~lines[i].json THEN FirstTask(lines, i + 1, high)
  ELSE IF IsMsg(lines[i]) /\ lines[i].role = "user" /\ lines[i].text.len > SummaryTaskLen
       THEN Cut(lines[i].text, 400)
       ELSE FirstTask(lines, i + 1, high)

RECURSIVE LastRequest(_, _, _)
\* the last user text longer than 20 characters among lines low..i
LastRequest(lines, i, low) ==
  IF i < low THEN EmptyText
  ELSE IF ~lines[i].json THEN LastRequest(lines, i - 1, low)
  ELSE IF IsMsg(lines[i]) /\ lines[i].role = "user" /\ lines[i].text.len > SummaryRequestLen
       THEN Cut(lines[i].text, 400)
       ELSE LastRequest(lines, i - 1, low)

RECURSIVE FilesInvolved(_, _, _)
\* the file paths of the tool_use blocks of lines i..high
FilesInvolved(lines, i, high) ==
  IF i > high THEN {}
  ELSE IF ~lines[i].json THEN FilesInvolved(lines, i + 1, high)
  ELSE (IF IsMsg(lines[i]) THEN lines[i].tool ELSE {})
         \cup FilesInvolved(lines, i + 1, high)

RECURSIVE RecentExchanges(_, _, _)
\* the user and assistant texts longer than 15 characters of lines i..high
RecentExchanges(lines, i, high) ==
  IF i > high THEN <<>>
  ELSE IF ~lines[i].json THEN RecentExchanges(lines, i + 1, high)
  ELSE IF /\ IsMsg(lines[i])
          /\ lines[i].role \in {"user", "assistant"}
          /\ lines[i].text.len > SummaryExchangeLen
       THEN <<[role |-> lines[i].role, text |-> Cut(lines[i].text, 200)]>>
              \o RecentExchanges(lines, i + 1, high)
       ELSE RecentExchanges(lines, i + 1, high)

LastOf(seq, n) == SubSeq(seq, Max(1, Len(seq) - n + 1), Len(seq))

\* the sections of the summary after its two header lines; an empty text,
\* set or sequence is a section that is left out
buildCompactionSummary(lines) ==
  LET n == Len(lines)
      mainTask == FirstTask(lines, 1, Min(n, 100))
      lastRequest == LastRequest(lines, n, Max(1, n - 59))
  IN [ task |-> mainTask,
       request |-> IF lastRequest # EmptyText /\ lastRequest # mainTask
                   THEN lastRequest ELSE EmptyText,
       files |-> FilesInvolved(lines, Max(1, n - 149), n),
       conversation |-> LastOf(RecentExchanges(lines, Max(1, n - 39), n), 8) ]

buildStopSummary(lines, lastMessage) ==
  LET n == Len(lines)
  IN [ task |-> FirstTask(lines, 1, Min(n, 100)),
       files |-> FilesInvolved(lines, Max(1, n - 149), n),
       final |-> IF lastMessage.len > FinalResponseLen
                 THEN Cut(lastMessage, 500) ELSE EmptyText ]

RECURSIVE ExtractTexts(_, _, _)
\* the texts of at least 15 characters of the given role from line i on
ExtractTexts(lines, i, role) ==
  IF i > Len(lines) THEN <<>>
  ELSE IF ~lines[i].json THEN ExtractTexts(lines, i + 1, role)
  ELSE IF /\ IsMsg(lines[i])
          /\ ~(lines[i].text.len < ExtractMinTextLen)
          /\ lines[i].role = role
       THEN <<Cut(lines[i].text, 600)>> \o ExtractTexts(lines, i + 1, role)
       ELSE ExtractTexts(lines, i + 1, role)

RECURSIVE SubstantialUserCount(_, _)
SubstantialUserCount(lines, i) ==
  IF i > Len(lines) THEN 0
  ELSE IF ~lines[i].json THEN SubstantialUserCount(lines, i + 1)
  ELSE (IF /\ IsMsg(lines[i])
           /\ ~(lines[i].text.len < ExtractMinTextLen)
           /\ lines[i].role = "user"
           /\ lines[i].text.len >= AUTO_EXTRACT_MIN_MSG_LENGTH
        THEN 1 ELSE 0) + SubstantialUserCount(lines, i + 1)

RECURSIVE JoinedLen(_)
\* the length of texts.join('\n---\n')
JoinedLen(texts) ==
  IF texts = <<>> THEN 0
  ELSE IF Len(texts) = 1 THEN texts[1].len
  ELSE texts[1].len + 5 + JoinedLen(Tail(texts))

NoPayload == [k |-> "null"]

\* variant of buildExtractionPayload: no minimum number of substantial user
\* messages
buildExtractionPayloadNoMinimum(lines) ==
  LET userTexts == ExtractTexts(lines, 1, "user")
      assistantTexts == ExtractTexts(lines, 1, "assistant")
  IN [ k |-> "payload",
       userMessages |-> [texts |-> userTexts, len |-> Min(JoinedLen(userTexts), 3500)],
       assistantResponses |->
         [texts |-> assistantTexts, len |-> Min(JoinedLen(assistantTexts), 3500)] ]

buildExtractionPayload(lines) ==
  IF SubstantialUserCount(lines, 1) < AUTO_EXTRACT_MIN_USER_MESSAGES THEN NoPayload
  ELSE LET userTexts == ExtractTexts(lines, 1, "user")
           assistantTexts == ExtractTexts(lines, 1, "assistant")
       IN [ k |-> "payload",
            userMessages |-> [texts |-> userTexts, len |-> Min(JoinedLen(userTexts), 3500)],
            assistantResponses |->
              [texts |-> assistantTexts, len |-> Min(JoinedLen(assistantTexts), 3500)] ]

\* variant of checkSessionSubstantial: no minimum number of lines
checkSessionSubstantialAnyLength(path) ==
  IF ~Readable(path) THEN FALSE
  ELSE LET lines == TranscriptFiles[path]
           users == {i \in 1..Len(lines) :
                       /\ lines[i].json
                       /\ lines[i].role = "user"
                       /\ lines[i].text.len > MinUserTextLen}
       IN Cardinality(users) >= SUMMARY_minUserMessages

checkSessionSubstantial(path) ==
  IF ~Readable(path) THEN FALSE ELSE checkSessionSubstantialIn(TranscriptFiles[path])

\* buildExtractionPayload of a readable transcript: null (FALSE) unless
\* enough substantial user messages
HasExtractionPayload(path) == buildExtractionPayload(TranscriptFiles[path]).k # "null"

(***************************************************************************)
(* The functions above, tabulated over the transcripts and topic indexes   *)
(* of the model (the values are those of the operators; a table is         *)
(* evaluated once).                                                        *)
(***************************************************************************)
LastUserMessageOf == [path \in TranscriptPaths |-> getLastUserMessage(path)]
KeywordsOf == [path \in TranscriptPaths |-> extractKeywords(LastUserMessageOf[path])]
MatchesOf == [idx \in TopicIndexes |-> [path \in TranscriptPaths |-> matchTopics(KeywordsOf[path], idx)]]
SubstantialOf == [path \in TranscriptPaths |-> checkSessionSubstantial(path)]
PayloadOf == [path \in DOMAIN TranscriptFiles |-> HasExtractionPayload(path)]

(***************************************************************************)
(* State.                                                                  *)
(*   now         Date.now() / 1000                                         *)
(*   compacted   ~/.cogmemai/compacted-<key>, per sanitized session key    *)
(*   marker      ~/.cogmemai/session-<key>                                 *)
(*   summary     ~/.cogmemai/summary-<key>                                 *)
(*   lastExtract ~/.cogmemai/last-extract                                  *)
(*   topics      ~/.cogmemai/topics-<project key>.json                     *)
(*   procs       the hook processes: position, input, locals kept across   *)
(*               an await, and what the invocation has done so far         *)
(*               (response: what the prompt-submit hook's request met)     *)
(*   ticks       number of clock advances so far                           *)
(*   lastRecallAt, lastSummaryAt, lastExtractAt                            *)
(*               history: when the last smart-recall call (per session),   *)
(*               stop-hook summary POST (per session) and extract POST     *)
(*               were issued, as a set of at most one time                 *)
(*   lastPrompt  history: the session (a set of at most one id) of the     *)
(*               prompt-submit invocation that finished last, as long as   *)
(*               no other process has changed a file of the flag directory *)
(*               since                                                     *)
(*   call        one api() call of the MCP server: where it stands, the    *)
(*               fetch attempts made and the backoff delays waited so far, *)
(*               and how it ended                                          *)
(*   eval        one evaluation of a function of the program that reads    *)
(*               and writes nothing but its arguments: the function (or    *)
(*               "input" before it is applied), its argument, its result   *)
(***************************************************************************)
VARIABLES now, ticks, compacted, marker, summary, lastExtract, topics, procs,
          lastRecallAt, lastSummaryAt, lastExtractAt, lastPrompt, call, eval

files == <<compacted, marker, summary, lastExtract, topics>>
history == <<lastRecallAt, lastSummaryAt, lastExtractAt, lastPrompt>>
vars == <<now, ticks, compacted, marker, summary, lastExtract, topics, procs,
          lastRecallAt, lastSummaryAt, lastExtractAt, lastPrompt, call, eval>>
hookVars == <<now, ticks, compacted, marker, summary, lastExtract, topics, procs,
              lastRecallAt, lastSummaryAt, lastExtractAt, lastPrompt, eval>>

Procs == {"p1", "p2"}
ProjectKeys == {ProjectKey(pr) : pr \in ProjectIds}
Never == {}

NoPrompt == {}

Absent == [k |-> "absent"]
Exists(f) == f.k # "absent"

CompactionFlag(t, sid) == [k |-> "json", mtime |-> t, timestamp |-> t, session_id |-> sid]
SummaryFlag(t, sid) == [k |-> "json", mtime |-> t, timestamp |-> t, session_id |-> sid]
ExtractCooldown(t, written) == [k |-> "json", mtime |-> written, timestamp |-> t]
TopicCache(t, pr, idx) ==
  [k |-> "json", mtime |-> t, timestamp |-> t, project_id |-> pr, topics |-> idx]
SessionMarker(t, sid, pr) ==
  [k |-> "json", mtime |-> t, timestamp |-> t, session_id |-> sid, project_id |-> pr,
   last_smart_recall |-> 0, last_smart_topics |-> <<>>]

\* no response, no error, no result (yet)
NoResponse == [kind |-> "none"]

IdleSlot ==
  [hook |-> "none", pc |-> "idle", sid |-> <<>>, path |-> "", apiKey |-> FALSE,
   project |-> <<>>, post |-> FALSE, t0 |-> 0, md |-> Absent, matches |-> <<>>,
   cls |-> "none", calls |-> <<>>, stdout |-> <<>>, logged |-> <<>>,
   raised |-> FALSE, faults |-> {}, response |-> "none", lookups |-> 0]

StartSlot(hook, sid, path, key, pr, fault) ==
  [IdleSlot EXCEPT !.hook = hook, !.sid = sid, !.path = path, !.apiKey = key,
                   !.project = pr, !.faults = {fault} \ {"none"}]

CanStart(p) == procs[p].pc = "idle"

\* no function is being evaluated
NoEval == [fn |-> "none", arg |-> <<>>, out |-> <<>>]

\* an empty flag directory, no hook process running, no api() call under way
InitHooks ==
  /\ now = StartTime
  /\ ticks = 0
  /\ compacted = [k \in Keys |-> Absent]
  /\ marker = [k \in Keys |-> Absent]
  /\ summary = [k \in Keys |-> Absent]
  /\ lastExtract = Absent
  /\ topics = [k \in ProjectKeys |-> Absent]
  /\ procs = [p \in Procs |-> IdleSlot]
  /\ lastRecallAt = [s \in SessionIds |-> Never]
  /\ lastSummaryAt = [s \in SessionIds |-> Never]
  /\ lastExtractAt = Never
  /\ lastPrompt = NoPrompt
  /\ call = [pc |-> "idle", attempt |-> 0, log |-> <<>>, delays |-> <<>>,
             lastError |-> NoResponse, res |-> NoResponse, result |-> NoResponse]

Init == InitHooks /\ eval = NoEval

\* the variables a function evaluation leaves alone
progVars == <<now, ticks, compacted, marker, summary, lastExtract, topics, procs,
              lastRecallAt, lastSummaryAt, lastExtractAt, lastPrompt, call>>

\* an argument has been drawn and no function applied to it yet
Input(arg) == [fn |-> "input", arg |-> arg, out |-> <<>>]

(***************************************************************************)
(* Key sanitization applied to an identifier, and again to its result;     *)
(* the three flag-file names of two session ids.                           *)
(***************************************************************************)
Sanitizers == {"SessionKey", "ProjectKey"}

SanitizeBy(fn, id) == IF fn = "SessionKey" THEN SessionKey(id) ELSE ProjectKey(id)

Sanitize(fn) ==
  /\ eval.fn = "input"
  /\ fn \in Sanitizers
  /\ eval' = [fn |-> fn, arg |-> eval.arg, out |-> <<SanitizeBy(fn, eval.arg)>>]
  /\ UNCHANGED progVars

SanitizeAgain ==
  /\ eval.fn \in Sanitizers
  /\ Len(eval.out) = 1
  /\ eval' = [eval EXCEPT !.out = Append(@, SanitizeBy(eval.fn, eval.out[1]))]
  /\ UNCHANGED progVars

FlagFiles(sessionId) ==
  {flagPath(sessionId), sessionMarkerPath(sessionId), summaryFlagPath(sessionId)}

NameFlagFiles ==
  /\ eval.fn = "input"
  /\ eval' = [fn |-> "FlagFiles", arg |-> eval.arg,
              out |-> <<FlagFiles(eval.arg[1]), FlagFiles(eval.arg[2])>>]
  /\ UNCHANGED progVars

(***************************************************************************)
(* The cap on the context a full reload injects.  A context is modelled by *)
(* its length, the number of its characters that come from the response,   *)
(* and whether it ends with the truncation marker,                         *)
(* '\n\n[Condensed - use recall_memories to search for specific past       *)
(* context]', of 71 characters.                                            *)
(***************************************************************************)
CondensedMarkerLen == 71
PostCompactionMaxChars == 4000
NewSessionMaxChars == 6000
CondensedReserve == 80

Context(n) == [len |-> n, kept |-> n, condensed |-> FALSE]

\* variant of capContext: the context is cut at maxChars
capContextAtMax(context, isPostCompaction) ==
  LET maxChars == IF isPostCompaction THEN PostCompactionMaxChars ELSE NewSessionMaxChars
  IN IF context.len > maxChars
     THEN [len |-> maxChars + CondensedMarkerLen, kept |-> maxChars, condensed |-> TRUE]
     ELSE context

\* if (context.length > maxChars) context = context.slice(0, maxChars - 80) + marker
capContext(context, isPostCompaction) ==
  LET maxChars == IF isPostCompaction THEN PostCompactionMaxChars ELSE NewSessionMaxChars
      kept == Min(context.len, maxChars - CondensedReserve)
  IN IF context.len > maxChars
     THEN [len |-> kept + CondensedMarkerLen, kept |-> kept, condensed |-> TRUE]
     ELSE context

Cap ==
  /\ eval.fn = "input"
  /\ eval' = [fn |-> "capContext", arg |-> eval.arg,
              out |-> capContext(eval.arg.context, eval.arg.isPostCompaction)]
  /\ UNCHANGED progVars

(***************************************************************************)
(* cleanStaleFlagFiles applied to a flag directory that may hold           *)
(* errors.log.  dir is the directory when readdirSync runs, t the time,    *)
(* faults what happens to each listed file while the loop runs: nothing,   *)
(* it vanishes before statSync, statSync throws, or unlinkSync throws.     *)
(***************************************************************************)
ErrorLog == "errors.log"
MissingDir == [k |-> "missing"]
Directory(entries) == [k |-> "dir", entries |-> entries]
File(mtime) == [k |-> "file", mtime |-> mtime]
SweepFaults == {"none", "vanished", "stat", "unlink"}

\* variant of cleanStaleFlagFiles: errors.log is treated like any other file
cleanStaleFlagFilesWithLog(dir, t, faults) ==
  IF dir.k = "missing" THEN [dir |-> dir, unlinked |-> {}, raised |-> FALSE]
  ELSE LET listed == {f \in DOMAIN dir.entries : Exists(dir.entries[f])}
           statted == {f \in listed : faults[f] \notin {"vanished", "stat"}}
           unlinked == {f \in statted : /\ t - dir.entries[f].mtime > STALE_FLAG_MAX_AGE
                                        /\ faults[f] # "unlink"}
           gone == unlinked \cup {f \in listed : faults[f] = "vanished"}
       IN [dir |-> Directory([f \in DOMAIN dir.entries |->
                                IF f \in gone THEN Absent ELSE dir.entries[f]]),
           unlinked |-> unlinked, raised |-> FALSE]

cleanStaleFlagFiles(dir, t, faults) ==
  IF dir.k = "missing" THEN [dir |-> dir, unlinked |-> {}, raised |-> FALSE]
  ELSE LET listed == {f \in DOMAIN dir.entries : Exists(dir.entries[f])} \ {ErrorLog}
           statted == {f \in listed : faults[f] \notin {"vanished", "stat"}}
           unlinked == {f \in statted : /\ t - dir.entries[f].mtime > STALE_FLAG_MAX_AGE
                                        /\ faults[f] # "unlink"}
           gone == unlinked \cup {f \in listed : faults[f] = "vanished"}
       IN [dir |-> Directory([f \in DOMAIN dir.entries |->
                                IF f \in gone THEN Absent ELSE dir.entries[f]]),
           unlinked |-> unlinked, raised |-> FALSE]

Sweep ==
  /\ eval.fn = "input"
  /\ eval' = [fn |-> "cleanStaleFlagFiles", arg |-> eval.arg,
              out |-> cleanStaleFlagFiles(eval.arg.dir, eval.arg.t, eval.arg.faults)]
  /\ UNCHANGED progVars

(***************************************************************************)
(* matchTopics applied to extracted keywords and a topic index.            *)
(***************************************************************************)
Match ==
  /\ eval.fn = "input"
  /\ eval' = [fn |-> "matchTopics", arg |-> eval.arg,
              out |-> matchTopics(eval.arg.keywords, eval.arg.topicIndex)]
  /\ UNCHANGED progVars

(***************************************************************************)
(* One transcript scanner applied to the lines of a transcript.            *)
(***************************************************************************)
Scanners ==
  {"checkSessionSubstantial", "getLastUserMessage", "buildCompactionSummary",
   "buildStopSummary", "buildExtractionPayload"}

Scan(fn, lastMessage) ==
  /\ eval.fn = "input"
  /\ fn \in Scanners
  /\ fn # "buildStopSummary" => lastMessage = EmptyText
  /\ eval' = [fn |-> fn, arg |-> eval.arg, out |->
       CASE fn = "checkSessionSubstantial" -> checkSessionSubstantialIn(eval.arg)
         [] fn = "getLastUserMessage" -> getLastUserMessageIn(eval.arg)
         [] fn = "buildCompactionSummary" -> buildCompactionSummary(eval.arg)
         [] fn = "buildStopSummary" -> buildStopSummary(eval.arg, lastMessage)
         [] fn = "buildExtractionPayload" -> buildExtractionPayload(eval.arg)]
  /\ UNCHANGED progVars

(***************************************************************************)
(* Exceptions.  An exception that reaches a catch block with               *)
(* logHookError(name, err) is logged and goes no further; logHookError     *)
(* itself swallows every failure.                                          *)
(***************************************************************************)
Throw(r) == [r EXCEPT !.raised = TRUE]

\* variant of Catch: the handler logs and lets the exception through
CatchRethrows(r, name) == [r EXCEPT !.logged = Append(@, name)]

Catch(r, name) == [r EXCEPT !.raised = FALSE, !.logged = Append(@, name)]

\* history: a prompt-submit invocation of session sid has just finished
PromptFinished(sid) == {sid}

\* history: whether this step, of another process, changes a flag file
Disturbed(before, after) == IF after # before THEN NoPrompt ELSE lastPrompt

\* the function returns and the process exits; its locals are gone
Return(r) == [r EXCEPT !.pc = "done", !.path = "", !.project = <<>>, !.t0 = 0, !.md = Absent]

\* console.log(JSON.stringify(...))
Emit(r, what) == [r EXCEPT !.stdout = Append(@, what)]

Call(r, endpoint) == [r EXCEPT !.calls = Append(@, endpoint)]

\* detectProjectIdForHook: one `git remote get-url origin`, limited to 3 s
Lookup(r) == [r EXCEPT !.lookups = @ + 1]

\* the process exits
Exit(p) ==
  /\ procs[p].pc = "done"
  /\ procs' = [procs EXCEPT ![p] = IdleSlot]
  /\ UNCHANGED <<call, eval, now, ticks, files, history>>

(***************************************************************************)
(* The clock, and the get_project_context tool of the MCP server           *)
(* (tools.ts), which is what writes the topic cache.                       *)
(***************************************************************************)
Tick(d) ==
  /\ ticks < MaxTicks
  /\ now' = now + d
  /\ ticks' = ticks + 1
  /\ UNCHANGED <<call, eval, files, procs, history>>

\* cacheTopicIndex(pid, result.topic_index)
cacheTopicIndex(pr, idx) ==
  /\ topics[ProjectKey(pr)] # TopicCache(now, pr, idx)
  /\ topics' = [topics EXCEPT ![ProjectKey(pr)] = TopicCache(now, pr, idx)]
  /\ lastPrompt' = NoPrompt
  /\ UNCHANGED <<call, eval, now, ticks, compacted, marker, summary, lastExtract, procs,
                 lastRecallAt, lastSummaryAt, lastExtractAt>>

(***************************************************************************)
(* cleanStaleFlagFiles: unlink every file whose mtime is more than         *)
(* STALE_FLAG_MAX_AGE old; a file that cannot be stat-ed or unlinked is    *)
(* skipped.  The model has no errors.log file.                             *)
(***************************************************************************)
IsStale(f) == Exists(f) /\ now - f.mtime > STALE_FLAG_MAX_AGE

StaleFiles ==
  {<<"compacted", k>> : k \in {x \in Keys : IsStale(compacted[x])}}
    \cup {<<"session", k>> : k \in {x \in Keys : IsStale(marker[x])}}
    \cup {<<"summary", k>> : k \in {x \in Keys : IsStale(summary[x])}}
    \cup {<<"topics", k>> : k \in {x \in ProjectKeys : IsStale(topics[x])}}
    \cup (IF IsStale(lastExtract) THEN {<<"last-extract", <<>> >>} ELSE {})

Swept(family, name, skipped) ==
  [k \in DOMAIN family |->
     IF IsStale(family[k]) /\ <<name, k>> \notin skipped THEN Absent ELSE family[k]]

SweptExtract(skipped) ==
  IF IsStale(lastExtract) /\ <<"last-extract", <<>> >> \notin skipped
  THEN Absent ELSE lastExtract

(***************************************************************************)
(* runHookPrecompact                                                       *)
(***************************************************************************)
PrecompactFaults == {"none", "mkdir", "writeFlag", "unlinkMarker"}
PostOutcomes == {"throw", "http_error", "ok"}

\* variant of PrecompactBegin: the summary is posted whether or not an API
\* key resolves
PrecompactBeginIgnoresKey(p, sid, path, key, pr) ==
  /\ CanStart(p)
  /\ LET r == StartSlot("precompact", sid, path, key, pr, "none")
     IN procs' = [procs EXCEPT ![p] = [Call(r, "session-summary") EXCEPT !.pc = "summary"]]
  /\ UNCHANGED <<call, eval, now, ticks, files, history>>

\* up to the await of the session-summary POST
PrecompactBegin(p, sid, path, key, pr) ==
  /\ CanStart(p)
  /\ LET r == StartSlot("precompact", sid, path, key, pr, "none")
     IN procs' = [procs EXCEPT ![p] =
                    IF ~key THEN Return(r)
                    ELSE [Call(r, "session-summary") EXCEPT !.pc = "summary"]]
  /\ UNCHANGED <<call, eval, now, ticks, files, history>>

\* variant of PrecompactEnd: a summary POST that throws ends the hook
PrecompactEndOnlyAfterResponse(p, outcome, fault, skipped) ==
  /\ procs[p].pc = "summary"
  /\ skipped \subseteq StaleFiles
  /\ fault = "unlinkMarker" => Exists(marker[SessionKey(procs[p].sid)])
  /\ LET r == [procs[p] EXCEPT !.faults = {fault} \ {"none"}]
         key_ == SessionKey(r.sid)
         swept == Swept(compacted, "compacted", skipped)
         sweptMarker == Swept(marker, "session", skipped)
     IN IF fault = "mkdir"
        THEN /\ procs' = [procs EXCEPT ![p] = Return(Catch(Throw(r), "precompact"))]
             /\ UNCHANGED files
        ELSE IF outcome = "throw"
        THEN /\ procs' = [procs EXCEPT ![p] = Return(r)]
             /\ UNCHANGED files
        ELSE /\ summary' = Swept(summary, "summary", skipped)
             /\ topics' = Swept(topics, "topics", skipped)
             /\ lastExtract' = SweptExtract(skipped)
             /\ IF fault = "writeFlag"
                THEN /\ procs' = [procs EXCEPT ![p] = Return(Catch(Throw(r), "precompact"))]
                     /\ compacted' = swept
                     /\ marker' = sweptMarker
                ELSE /\ procs' = [procs EXCEPT ![p] = Return(r)]
                     /\ compacted' = [swept EXCEPT ![key_] = CompactionFlag(now, r.sid)]
                     /\ marker' = IF fault = "unlinkMarker" THEN sweptMarker
                                  ELSE [sweptMarker EXCEPT ![key_] = Absent]
  /\ lastPrompt' = Disturbed(files, files')
  /\ UNCHANGED <<call, eval, now, ticks, lastRecallAt, lastSummaryAt, lastExtractAt>>

\* from the POST's outcome (swallowed either way) to the end
PrecompactEnd(p, outcome, fault, skipped) ==
  /\ procs[p].pc = "summary"
  /\ skipped \subseteq StaleFiles
  /\ fault = "unlinkMarker" => Exists(marker[SessionKey(procs[p].sid)])
  /\ LET r == [procs[p] EXCEPT !.faults = {fault} \ {"none"}]
         key_ == SessionKey(r.sid)
         swept == Swept(compacted, "compacted", skipped)
         sweptMarker == Swept(marker, "session", skipped)
     IN IF fault = "mkdir"
        THEN /\ procs' = [procs EXCEPT ![p] = Return(Catch(Throw(r), "precompact"))]
             /\ UNCHANGED files
        ELSE /\ summary' = Swept(summary, "summary", skipped)
             /\ topics' = Swept(topics, "topics", skipped)
             /\ lastExtract' = SweptExtract(skipped)
             /\ IF fault = "writeFlag"
                THEN /\ procs' = [procs EXCEPT ![p] = Return(Catch(Throw(r), "precompact"))]
                     /\ compacted' = swept
                     /\ marker' = sweptMarker
                ELSE /\ procs' = [procs EXCEPT ![p] = Return(r)]
                     /\ compacted' = [swept EXCEPT ![key_] = CompactionFlag(now, r.sid)]
                     /\ marker' = IF fault = "unlinkMarker" THEN sweptMarker
                                  ELSE [sweptMarker EXCEPT ![key_] = Absent]
  /\ lastPrompt' = Disturbed(files, files')
  /\ UNCHANGED <<call, eval, now, ticks, lastRecallAt, lastSummaryAt, lastExtractAt>>

(***************************************************************************)
(* trySmartRecall, up to the await of the smart-recall call.  r is the     *)
(* slot of the invocation, path its transcript_path, m the marker file;    *)
(* the result is the slot after the step.                                  *)
(***************************************************************************)
\* const newTopics = matches.filter(m => !lastTopics.has(m.subject))
NewTopics(matches, lastTopics) ==
  SelectSeq(Subjects(matches), LAMBDA sub : sub \notin Range(lastTopics))

\* variant of RecallInCooldown: no cooldown between smart-recall calls
RecallNeverInCooldown(m) == FALSE

\* const lastRecall = markerData.last_smart_recall || 0;
\* if (now - lastRecall < SMART_RECALL_COOLDOWN) return;
RecallInCooldown(m) == now - m.last_smart_recall < SMART_RECALL_COOLDOWN

\* the checks of trySmartRecall that precede the read of the topic cache
ReachesCache(path, m, fault) ==
  /\ m.k = "json" /\ fault # "readMarker2"
  /\ ~RecallInCooldown(m)
  /\ path # ""
  /\ ~(LastUserMessageOf[path].len < SMART_RECALL_MIN_MSG_LENGTH)
  /\ ~(Len(KeywordsOf[path]) < 2)
  /\ Exists(topics[ProjectKey(m.project_id)])

SmartRecallBegin(r, path, m, fault) ==
  LET cache == topics[ProjectKey(m.project_id)]
      matches == MatchesOf[cache.topics][path]
      found == [r EXCEPT !.matches = Subjects(matches)]
  IN IF ~ReachesCache(path, m, fault) THEN Return(r)
     ELSE IF cache.k # "json" \/ fault = "readCache" THEN Return(r)
     ELSE IF now - cache.timestamp > TOPIC_CACHE_MAX_AGE THEN Return(r)
     ELSE IF matches = <<>> THEN Return(r)
     ELSE IF matches[1].score < SMART_RECALL_MIN_MATCH_SCORE THEN Return(found)
     ELSE IF NewTopics(matches, m.last_smart_topics) = <<>> THEN Return(found)
     ELSE IF ~r.apiKey THEN Return(found)
     ELSE [Call(found, "smart-recall") EXCEPT !.pc = "recall", !.md = m, !.t0 = now]

(***************************************************************************)
(* runHookContextReload                                                    *)
(***************************************************************************)
PromptBeginFaults == {"none", "readMarker", "readMarker2", "readFlag", "unlinkFlag", "readCache"}
PromptEndFaults == {"none", "unlinkFlag", "writeMarker"}
FetchOutcomes ==
  {"throw", "http_error", "bad_body", "empty", "content", "zero_count", "no_count",
   "memories_only"}

\* what res.json() yields for a 2xx response with a JSON body:
\* formatted_context is whether that field is a non-empty string, memories
\* the number of entries of project_memories and global_memories (of
\* memories, for smart-recall), total_count a set: empty when the field is
\* undefined
JsonBody ==
  [ empty         |-> [formatted_context |-> FALSE, memories |-> 0, total_count |-> {}],
    content       |-> [formatted_context |-> TRUE, memories |-> 2, total_count |-> {2}],
    zero_count    |-> [formatted_context |-> TRUE, memories |-> 0, total_count |-> {0}],
    no_count      |-> [formatted_context |-> TRUE, memories |-> 1, total_count |-> {}],
    memories_only |-> [formatted_context |-> FALSE, memories |-> 1, total_count |-> {1}] ]

\* variant of HasContext: total_count is not looked at
HasContextIgnoringCount(data) == data.formatted_context \/ data.memories > 0

\* context is data.formatted_context or, failing that, one line per memory;
\* if (!context || (data.total_count !== undefined && data.total_count === 0)) return;
HasContext(data) ==
  LET context == data.formatted_context \/ data.memories > 0
  IN ~(~context \/ 0 \in data.total_count)

\* if (!data.memories || data.memories.length === 0) return;
HasMemories(data) == ~(data.memories = 0)

\* variant of ContextCall: one limit for both kinds of reload
ContextCallOneLimit(isPostCompaction) == "context?limit=20"

\* variant of MarkerFresh: a marker is never taken for fresh
MarkerNeverFresh(m) == FALSE

\* const contextLimit = isPostCompaction ? 15 : 20;
ContextCall(isPostCompaction) ==
  IF isPostCompaction THEN "context?limit=15" ELSE "context?limit=20"

\* the marker exists, parses and is at most SESSION_EXPIRY_SECONDS old
MarkerFresh(m) ==
  /\ Exists(m)
  /\ m.k = "json"
  /\ ~(now - m.timestamp > SESSION_EXPIRY_SECONDS)

\* the flag does not parse or is older than COMPACTION_FLAG_MAX_AGE
FlagBad(flag, fault) ==
  \/ flag.k # "json"
  \/ fault = "readFlag"
  \/ now - flag.timestamp > COMPACTION_FLAG_MAX_AGE

\* from readHookInput to the first await
PromptBegin(p, sid, path, key, pr, fault) ==
  /\ CanStart(p)
  /\ LET key_ == SessionKey(sid)
         flag == compacted[key_]
         m == marker[key_]
         isPostCompaction == Exists(flag)
         markerFresh == MarkerFresh(m)
         isNewSession == ~isPostCompaction /\ (~markerFresh \/ fault = "readMarker")
         \* transcript_path is read by trySmartRecall alone, before its await
         r0 == StartSlot("prompt", sid, "", key, pr, fault)
         r == [r0 EXCEPT !.post = isPostCompaction,
                         !.cls = IF isPostCompaction THEN "post_compaction"
                                 ELSE IF isNewSession THEN "new_session" ELSE "ongoing"]
         unlinked == IF fault = "unlinkFlag" THEN compacted
                     ELSE [compacted EXCEPT ![key_] = Absent]
         flagBad == FlagBad(flag, fault)
     IN \* a failure is drawn only for an operation the invocation performs
        /\ fault = "readMarker" => ~isPostCompaction /\ markerFresh
        /\ fault = "readMarker2" => ~isPostCompaction /\ markerFresh
        /\ fault = "readCache" => ~isPostCompaction /\ markerFresh /\ ReachesCache(path, m, fault)
        /\ fault = "readFlag" => isPostCompaction /\ key
        /\ fault = "unlinkFlag" => isPostCompaction /\ (~key \/ flagBad)
        /\ IF ~isPostCompaction /\ ~isNewSession
           THEN /\ procs' = [procs EXCEPT ![p] = SmartRecallBegin(r, path, m, fault)]
                /\ lastRecallAt' = IF SmartRecallBegin(r, path, m, fault).pc = "recall"
                                   THEN [lastRecallAt EXCEPT ![sid] = {now}]
                                   ELSE lastRecallAt
                /\ UNCHANGED compacted
           ELSE IF ~key
           THEN /\ procs' = [procs EXCEPT ![p] = Return(r)]
                /\ compacted' = IF isPostCompaction THEN unlinked ELSE compacted
                /\ UNCHANGED lastRecallAt
           ELSE IF isPostCompaction /\ flagBad /\ ~isNewSession
           THEN /\ procs' = [procs EXCEPT ![p] = Return(r)]
                /\ compacted' = unlinked
                /\ UNCHANGED lastRecallAt
           ELSE /\ procs' = [procs EXCEPT ![p] =
                               [Call(r, ContextCall(isPostCompaction)) EXCEPT !.pc = "context"]]
                /\ compacted' = IF isPostCompaction /\ flagBad THEN unlinked ELSE compacted
                /\ UNCHANGED lastRecallAt
  /\ lastPrompt' = IF procs'[p].pc = "done" THEN PromptFinished(sid) ELSE lastPrompt
  /\ UNCHANGED <<call, eval, now, ticks, marker, summary, lastExtract, topics, lastSummaryAt, lastExtractAt>>

\* from the context response to the end
PromptEnd(p, outcome, fault) ==
  /\ procs[p].pc = "context"
  /\ fault = "unlinkFlag" => procs[p].post /\ outcome # "throw"
  /\ fault = "writeMarker" => outcome # "throw"
  /\ LET r0 == [procs[p] EXCEPT !.faults = @ \cup ({fault} \ {"none"}), !.response = outcome]
         r == IF outcome = "throw" THEN r0 ELSE Lookup(r0)
         key_ == SessionKey(r.sid)
     IN IF outcome = "throw"
        THEN /\ procs' = [procs EXCEPT ![p] = Return(Catch(Throw(r), "context-reload"))]
             /\ UNCHANGED <<compacted, marker>>
        ELSE /\ compacted' = IF r.post /\ fault # "unlinkFlag"
                             THEN [compacted EXCEPT ![key_] = Absent]
                             ELSE compacted
             /\ IF fault = "writeMarker"
                THEN /\ procs' = [procs EXCEPT ![p] = Return(Catch(Throw(r), "context-reload"))]
                     /\ UNCHANGED marker
                ELSE /\ marker' = [marker EXCEPT ![key_] = SessionMarker(now, r.sid, r.project)]
                     /\ procs' = [procs EXCEPT ![p] =
                          CASE outcome = "http_error" -> Return(r)
                            [] outcome = "bad_body" -> Return(Catch(Throw(r), "context-reload"))
                            [] OTHER -> IF HasContext(JsonBody[outcome])
                                        THEN Return(Emit(r, "context"))
                                        ELSE Return(r)]
  /\ lastPrompt' = PromptFinished(procs[p].sid)
  /\ UNCHANGED <<call, eval, now, ticks, summary, lastExtract, topics,
                 lastRecallAt, lastSummaryAt, lastExtractAt>>

\* variant of RecallEnd: the rewritten marker gets the current time as its
\* timestamp
RecallEndRefreshesTimestamp(p, outcome, fault) ==
  /\ procs[p].pc = "recall"
  /\ fault # "unlinkFlag"
  /\ fault = "writeMarker" => outcome \in DOMAIN JsonBody /\ HasMemories(JsonBody[outcome])
  /\ LET r == [procs[p] EXCEPT !.faults = @ \cup ({fault} \ {"none"}), !.response = outcome]
         key_ == SessionKey(r.sid)
         injectedTopics == SubSeq(r.matches, 1, Min(Len(r.matches), MaxInjectedTopics))
     IN CASE outcome \in {"throw", "http_error"} ->
               /\ procs' = [procs EXCEPT ![p] = Return(r)]
               /\ UNCHANGED marker
          [] outcome = "bad_body" ->
               /\ procs' = [procs EXCEPT ![p] = Return(Catch(Throw(r), "smart-recall"))]
               /\ UNCHANGED marker
          [] outcome \in DOMAIN JsonBody /\ ~HasMemories(JsonBody[outcome]) ->
               /\ procs' = [procs EXCEPT ![p] = Return(r)]
               /\ UNCHANGED marker
          [] outcome \in DOMAIN JsonBody /\ HasMemories(JsonBody[outcome]) ->
               /\ procs' = [procs EXCEPT ![p] = Return(Emit(r, "recall"))]
               /\ marker' = IF fault = "writeMarker" THEN marker
                            ELSE [marker EXCEPT ![key_] =
                                    [r.md EXCEPT !.mtime = now,
                                                 !.timestamp = now,
                                                 !.last_smart_recall = r.t0,
                                                 !.last_smart_topics = injectedTopics]]
  /\ lastPrompt' = PromptFinished(procs[p].sid)
  /\ UNCHANGED <<call, eval, now, ticks, compacted, summary, lastExtract, topics,
                 lastRecallAt, lastSummaryAt, lastExtractAt>>

\* trySmartRecall from the smart-recall response to the end
RecallEnd(p, outcome, fault) ==
  /\ procs[p].pc = "recall"
  /\ fault # "unlinkFlag"
  /\ fault = "writeMarker" => outcome \in DOMAIN JsonBody /\ HasMemories(JsonBody[outcome])
  /\ LET r == [procs[p] EXCEPT !.faults = @ \cup ({fault} \ {"none"}), !.response = outcome]
         key_ == SessionKey(r.sid)
         injectedTopics == SubSeq(r.matches, 1, Min(Len(r.matches), MaxInjectedTopics))
     IN CASE outcome \in {"throw", "http_error"} ->
               /\ procs' = [procs EXCEPT ![p] = Return(r)]
               /\ UNCHANGED marker
          [] outcome = "bad_body" ->
               /\ procs' = [procs EXCEPT ![p] = Return(Catch(Throw(r), "smart-recall"))]
               /\ UNCHANGED marker
          [] outcome \in DOMAIN JsonBody /\ ~HasMemories(JsonBody[outcome]) ->
               /\ procs' = [procs EXCEPT ![p] = Return(r)]
               /\ UNCHANGED marker
          [] outcome \in DOMAIN JsonBody /\ HasMemories(JsonBody[outcome]) ->
               /\ procs' = [procs EXCEPT ![p] = Return(Emit(r, "recall"))]
               /\ marker' = IF fault = "writeMarker" THEN marker
                            ELSE [marker EXCEPT ![key_] =
                                    [r.md EXCEPT !.mtime = now,
                                                 !.last_smart_recall = r.t0,
                                                 !.last_smart_topics = injectedTopics]]
  /\ lastPrompt' = PromptFinished(procs[p].sid)
  /\ UNCHANGED <<call, eval, now, ticks, compacted, summary, lastExtract, topics,
                 lastRecallAt, lastSummaryAt, lastExtractAt>>

(***************************************************************************)
(* The exchange of a prompt-submit invocation, await by await.  hookFetch  *)
(* arms a timer that aborts the request and clears it as soon as fetch     *)
(* settles, which is when the status line and headers have arrived; the    *)
(* caller then awaits res.json(), which reads the body.  PromptEnd and     *)
(* RecallEnd are these steps taken together.                               *)
(***************************************************************************)
BodyOutcomes == {"bad_body"} \cup DOMAIN JsonBody

\* setTimeout(() => controller.abort(), HOOK_FETCH_TIMEOUT_MS) fires while
\* fetch is pending: fetch rejects, as it does for a network error
HookFetchAborts(p) ==
  \/ PromptEnd(p, "throw", "none")
  \/ RecallEnd(p, "throw", "none")

\* fetch resolves for the context request: the timer is cleared, the flag
\* deleted, the marker written, and for a 2xx status res.json() is awaited
ContextResponds(p, ok, fault) ==
  /\ procs[p].pc = "context"
  /\ fault = "unlinkFlag" => procs[p].post
  /\ LET r == Lookup([procs[p] EXCEPT !.faults = @ \cup ({fault} \ {"none"})])
         key_ == SessionKey(r.sid)
     IN /\ compacted' = IF r.post /\ fault # "unlinkFlag"
                        THEN [compacted EXCEPT ![key_] = Absent]
                        ELSE compacted
        /\ IF fault = "writeMarker"
           THEN /\ procs' = [procs EXCEPT ![p] = Return(Catch(Throw(r), "context-reload"))]
                /\ UNCHANGED marker
           ELSE /\ marker' = [marker EXCEPT ![key_] = SessionMarker(now, r.sid, r.project)]
                /\ procs' = [procs EXCEPT ![p] =
                     IF ~ok THEN Return([r EXCEPT !.response = "http_error"])
                     ELSE [r EXCEPT !.pc = "body"]]
  /\ lastPrompt' = IF procs'[p].pc = "done" THEN PromptFinished(procs[p].sid) ELSE lastPrompt
  /\ UNCHANGED <<call, eval, now, ticks, summary, lastExtract, topics,
                 lastRecallAt, lastSummaryAt, lastExtractAt>>

\* res.json() settles for the context response
ContextBody(p, outcome) ==
  /\ procs[p].pc = "body"
  /\ LET r == [procs[p] EXCEPT !.response = outcome]
     IN procs' = [procs EXCEPT ![p] =
          IF outcome = "bad_body" THEN Return(Catch(Throw(r), "context-reload"))
          ELSE IF HasContext(JsonBody[outcome]) THEN Return(Emit(r, "context"))
          ELSE Return(r)]
  /\ lastPrompt' = PromptFinished(procs[p].sid)
  /\ UNCHANGED <<call, eval, now, ticks, files, lastRecallAt, lastSummaryAt, lastExtractAt>>

\* fetch resolves for the smart-recall request: if (!res.ok) return;
RecallResponds(p, ok) ==
  /\ procs[p].pc = "recall"
  /\ procs' = [procs EXCEPT ![p] =
       IF ~ok THEN Return([procs[p] EXCEPT !.response = "http_error"])
       ELSE [procs[p] EXCEPT !.pc = "recall_body"]]
  /\ lastPrompt' = IF ok THEN lastPrompt ELSE PromptFinished(procs[p].sid)
  /\ UNCHANGED <<call, eval, now, ticks, files, lastRecallAt, lastSummaryAt, lastExtractAt>>

\* res.json() settles for the smart-recall response
RecallBody(p, outcome, fault) ==
  /\ procs[p].pc = "recall_body"
  /\ fault = "writeMarker" => outcome \in DOMAIN JsonBody /\ HasMemories(JsonBody[outcome])
  /\ LET r == [procs[p] EXCEPT !.faults = @ \cup ({fault} \ {"none"}), !.response = outcome]
         key_ == SessionKey(r.sid)
         injectedTopics == SubSeq(r.matches, 1, Min(Len(r.matches), MaxInjectedTopics))
     IN IF outcome = "bad_body"
        THEN /\ procs' = [procs EXCEPT ![p] = Return(Catch(Throw(r), "smart-recall"))]
             /\ UNCHANGED marker
        ELSE IF ~HasMemories(JsonBody[outcome])
        THEN /\ procs' = [procs EXCEPT ![p] = Return(r)]
             /\ UNCHANGED marker
        ELSE /\ procs' = [procs EXCEPT ![p] = Return(Emit(r, "recall"))]
             /\ marker' = IF fault = "writeMarker" THEN marker
                          ELSE [marker EXCEPT ![key_] =
                                  [r.md EXCEPT !.mtime = now,
                                               !.last_smart_recall = r.t0,
                                               !.last_smart_topics = injectedTopics]]
  /\ lastPrompt' = PromptFinished(procs[p].sid)
  /\ UNCHANGED <<call, eval, now, ticks, compacted, summary, lastExtract, topics,
                 lastRecallAt, lastSummaryAt, lastExtractAt>>

(***************************************************************************)
(* autoExtractFromSession, up to the await of the extract POST.  The       *)
(* result is the slot after the step; the caller (runHookStop) catches     *)
(* what it throws and then prints {}.                                      *)
(***************************************************************************)
ExtractInCooldown(fault) ==
  /\ Exists(lastExtract)
  /\ lastExtract.k = "json"
  /\ fault # "readCooldown"
  /\ now - lastExtract.timestamp < AUTO_EXTRACT_COOLDOWN

AutoExtractBegin(r, fault) ==
  IF ExtractInCooldown(fault) THEN Return(Emit(r, "{}"))
  ELSE IF ~Readable(r.path) \/ fault = "readTranscript"
       THEN Return(Emit(Catch(Throw(r), "auto-extract"), "{}"))
  ELSE IF ~PayloadOf[r.path] THEN Return(Emit(r, "{}"))
  ELSE [Call(Lookup(r), "extract") EXCEPT !.pc = "extract", !.t0 = now]

(***************************************************************************)
(* runHookStop                                                             *)
(***************************************************************************)
StopBeginFaults == {"none", "readFlag", "readTranscript"}
StopMidFaults == {"none", "writeFlag", "readCooldown", "readTranscript"}
StopEndFaults == {"none", "writeCooldown"}

\* variant of SummaryInCooldown: the summary flag is ignored
SummaryNeverInCooldown(sid, fault) == FALSE

SummaryInCooldown(sid, fault) ==
  LET flag == summary[SessionKey(sid)]
  IN /\ Exists(flag)
     /\ flag.k = "json"
     /\ fault # "readFlag"
     /\ now - flag.timestamp < SUMMARY_cooldownSeconds

\* variant of StopBegin: stop_hook_active is not looked at
StopBeginIgnoresActive(p, sid, path, key, pr, active, fault) ==
  /\ CanStart(p)
  /\ LET r == StartSlot("stop", sid, path, key, pr, fault)
         ready == /\ sid # <<>>
                  /\ ~SummaryInCooldown(sid, fault)
                  /\ path # ""
                  /\ SubstantialOf[path]
                  /\ key
         go == ready /\ fault # "readTranscript"
     IN /\ fault = "readFlag" => sid # <<>> /\ Exists(summary[SessionKey(sid)])
        /\ fault = "readTranscript" => ready
        /\ procs' = [procs EXCEPT ![p] =
                       IF go THEN [Call(r, "session-summary") EXCEPT !.pc = "stopsummary"]
                       ELSE Return([r EXCEPT !.cls = "skipped"])]
        /\ lastSummaryAt' = IF go THEN [lastSummaryAt EXCEPT ![sid] = {now}] ELSE lastSummaryAt
  /\ UNCHANGED <<call, eval, now, ticks, files, lastRecallAt, lastExtractAt, lastPrompt>>

\* from readStopHookInput to the await of the session-summary POST
StopBegin(p, sid, path, key, pr, active, fault) ==
  /\ CanStart(p)
  /\ LET r == StartSlot("stop", sid, path, key, pr, fault)
         gated == active \/ sid = <<>>
         ready == /\ ~gated
                  /\ ~SummaryInCooldown(sid, fault)
                  /\ path # ""
                  /\ SubstantialOf[path]
                  /\ key
         go == ready /\ fault # "readTranscript"
     IN /\ fault = "readFlag" => ~gated /\ Exists(summary[SessionKey(sid)])
        /\ fault = "readTranscript" => ready
        /\ procs' = [procs EXCEPT ![p] =
                       IF go THEN [Call(r, "session-summary") EXCEPT !.pc = "stopsummary"]
                       ELSE Return([r EXCEPT !.cls = IF active THEN "active" ELSE "skipped"])]
        /\ lastSummaryAt' = IF go THEN [lastSummaryAt EXCEPT ![sid] = {now}] ELSE lastSummaryAt
  /\ UNCHANGED <<call, eval, now, ticks, files, lastRecallAt, lastExtractAt, lastPrompt>>

\* from the summary POST's outcome (swallowed either way) to the await of
\* the extract POST, or to the end
StopMid(p, outcome, fault) ==
  /\ procs[p].pc = "stopsummary"
  /\ fault = "readCooldown" => Exists(lastExtract)
  /\ fault = "readTranscript" => ~ExtractInCooldown(fault)
  /\ LET r == [procs[p] EXCEPT !.faults = @ \cup ({fault} \ {"none"})]
         key_ == SessionKey(r.sid)
     IN IF fault = "writeFlag"
        THEN /\ procs' = [procs EXCEPT ![p] = Return(Emit(Catch(Throw(r), "stop"), "{}"))]
             /\ UNCHANGED <<summary, lastExtractAt>>
        ELSE /\ summary' = [summary EXCEPT ![key_] = SummaryFlag(now, r.sid)]
             /\ procs' = [procs EXCEPT ![p] = AutoExtractBegin(r, fault)]
             /\ lastExtractAt' = IF AutoExtractBegin(r, fault).pc = "extract"
                                 THEN {now} ELSE lastExtractAt
  /\ lastPrompt' = Disturbed(summary, summary')
  /\ UNCHANGED <<call, eval, now, ticks, compacted, marker, lastExtract, topics,
                 lastRecallAt, lastSummaryAt>>

\* autoExtractFromSession from the extract POST's outcome to the end of
\* runHookStop
StopEnd(p, outcome, fault) ==
  /\ procs[p].pc = "extract"
  /\ fault = "writeCooldown" => outcome # "throw"
  /\ LET r == [procs[p] EXCEPT !.faults = @ \cup ({fault} \ {"none"})]
     IN IF outcome = "throw"
        THEN /\ procs' = [procs EXCEPT ![p] = Return(Emit(r, "{}"))]
             /\ UNCHANGED lastExtract
        ELSE IF fault = "writeCooldown"
        THEN /\ procs' = [procs EXCEPT ![p] = Return(Emit(Catch(Throw(r), "auto-extract"), "{}"))]
             /\ UNCHANGED lastExtract
        ELSE /\ procs' = [procs EXCEPT ![p] = Return(Emit(r, "{}"))]
             /\ lastExtract' = ExtractCooldown(r.t0, now)
  /\ lastPrompt' = Disturbed(lastExtract, lastExtract')
  /\ UNCHANGED <<call, eval, now, ticks, compacted, marker, summary, topics,
                 lastRecallAt, lastSummaryAt, lastExtractAt>>

(***************************************************************************)
(* The API client of the MCP server: api() and fetchWithRetry.  One call   *)
(* at a time is followed.  What the endpoint does on an attempt is either  *)
(* a response (status, kind of body) or a throw of fetch: a network error, *)
(* or the abort of the request's timeout.                                  *)
(***************************************************************************)
RETRY_maxRetries == 2
RETRY_baseDelayMs == 500
RETRY_maxDelayMs == 3000
RETRY_retryableStatusCodes == {408, 429, 500, 502, 503, 504}
FETCH_TIMEOUT_MS == 10000
\* Math.random() * 200, in whole milliseconds
JitterBound == 200

Statuses == {200, 400, 401, 403, 404, 408, 429, 500, 502, 503, 504}

\* bodies: a JSON object with a non-empty error field, a JSON object
\* without one, JSON null, and text that is not JSON
Bodies == {"error_field", "no_error_field", "json_null", "not_json"}

Response(status, body) == [kind |-> "response", status |-> status, body |-> body]
FetchError(name) == [kind |-> "error", name |-> name]

Responses == {Response(st, b) : st \in Statuses, b \in Bodies}
FetchThrows == {FetchError("TypeError"), FetchError("AbortError")}

\* res.ok
Ok(res) == res.status >= 200 /\ res.status <= 299

\* variant of IsRetryable: no status is retried
NothingRetryable(status) == FALSE

\* variant of IsRetryable: every status is retried
EverythingRetryable(status) == TRUE

\* retryable.includes(res.status)
IsRetryable(status) == status \in RETRY_retryableStatusCodes

\* Math.min(baseDelayMs * Math.pow(2, attempt) + Math.random() * 200, maxDelayMs)
retryDelay(attempt, jitter) ==
  Min(RETRY_baseDelayMs * (2 ^ attempt) + jitter, RETRY_maxDelayMs)

\* what the catch block of fetchWithRetry keeps as lastError
CaughtError(err) ==
  IF err.name = "AbortError" THEN [kind |-> "error", name |-> "timeout", ms |-> FETCH_TIMEOUT_MS]
  ELSE err

\* api(path, method, body) up to the first fetch of fetchWithRetry
ApiBegin ==
  /\ call.pc = "idle"
  /\ call' = [call EXCEPT !.pc = "fetch"]
  /\ UNCHANGED hookVars

\* fetchWithRetry from the settling of a fetch to the next await (the
\* backoff timer), to its return or to its throw
FetchSettles(outcome, jitter) ==
  /\ call.pc = "fetch"
  /\ LET c == [call EXCEPT !.log = Append(@, outcome)]
         wait == [c EXCEPT !.pc = "backoff",
                           !.delays = Append(@, retryDelay(call.attempt, jitter))]
     IN call' =
          IF outcome.kind = "response"
          THEN IF Ok(outcome) \/ ~IsRetryable(outcome.status)
               THEN [c EXCEPT !.pc = "returned", !.res = outcome]
               ELSE IF call.attempt < RETRY_maxRetries THEN wait
               ELSE [c EXCEPT !.pc = "returned", !.res = outcome]
          ELSE LET e == [c EXCEPT !.lastError = CaughtError(outcome)]
                   w == [wait EXCEPT !.lastError = CaughtError(outcome)]
               IN IF call.attempt < RETRY_maxRetries THEN w
                  ELSE [e EXCEPT !.pc = "threw"]
  /\ UNCHANGED hookVars

\* the backoff timer fires: continue with the next attempt
BackoffEnds ==
  /\ call.pc = "backoff"
  /\ call' = [call EXCEPT !.pc = "fetch", !.attempt = @ + 1]
  /\ UNCHANGED hookVars

\* api() from the return or throw of fetchWithRetry to its own end:
\* const data = await res.json(); if (!res.ok) throw new Error(...)
ApiEnd ==
  /\ call.pc \in {"returned", "threw"}
  /\ LET res == call.res
         rejected(e) == [call EXCEPT !.pc = "rejected", !.result = e]
     IN call' =
          IF call.pc = "threw" THEN rejected(call.lastError)
          ELSE IF res.body = "not_json" THEN rejected(FetchError("SyntaxError"))
          ELSE IF ~Ok(res)
               THEN IF res.body = "json_null" THEN rejected(FetchError("TypeError"))
                    ELSE IF res.body = "error_field"
                         THEN rejected([kind |-> "error", name |-> "remote"])
                         ELSE rejected([kind |-> "error", name |-> "HTTP", status |-> res.status])
               ELSE [call EXCEPT !.pc = "resolved", !.result = res]
  /\ UNCHANGED hookVars

\* the caller is done with the call
ApiExit ==
  /\ call.pc \in {"resolved", "rejected"}
  /\ call' = [pc |-> "idle", attempt |-> 0, log |-> <<>>, delays |-> <<>>,
              lastError |-> NoResponse, res |-> NoResponse, result |-> NoResponse]
  /\ UNCHANGED hookVars

(***************************************************************************)
(* Specifications.                                                         *)
(***************************************************************************)
AllIdle == \A p \in Procs : procs[p].pc = "idle"

ToolContext == \E pr \in ProjectIds, idx \in TopicIndexes : cacheTopicIndex(pr, idx)

(***************************************************************************)
(* Time limits.  hookFetch aborts a request after HOOK_FETCH_TIMEOUT_MS,   *)
(* detectProjectIdForHook gives git 3000 ms, and configureHooks installs   *)
(* each hook command with a timeout in seconds after which the host kills  *)
(* it.                                                                     *)
(***************************************************************************)
HOOK_FETCH_TIMEOUT_MS == 5000
GitLookupTimeoutMs == 3000
PreCompactTimeout == 15
UserPromptSubmitTimeout == 10
SUMMARY_hookTimeoutSeconds == 20

HookTimeout ==
  [precompact |-> PreCompactTimeout, prompt |-> UserPromptSubmitTimeout,
   stop |-> SUMMARY_hookTimeoutSeconds]

\* variant of WorstCaseMs: the remote calls have the limit of the MCP tools
WorstCaseMsToolTimeout(r) ==
  Len(r.calls) * FETCH_TIMEOUT_MS + r.lookups * GitLookupTimeoutMs

\* the time limits of the remote calls and git lookups that invocation r
\* has begun, added up
WorstCaseMs(r) ==
  Len(r.calls) * HOOK_FETCH_TIMEOUT_MS + r.lookups * GitLookupTimeoutMs

(***************************************************************************)
(* CLI routing (index.ts).  A command-line argument is a word in some      *)
(* letter case, or is not given; toLowerCase folds the case.  The result   *)
(* of the router is the handler it starts, what it writes to stderr, and   *)
(* the exit status of the process ("running" for the MCP server, which     *)
(* does not exit).  settled is how the handler's promise settles.          *)
(***************************************************************************)
Arg(word, caps) == [given |-> TRUE, word |-> word, caps |-> caps]
NotGiven == [given |-> FALSE, word |-> "", caps |-> FALSE]

\* process.argv[i]?.toLowerCase()
toLowerCase(a) == IF a.given THEN Arg(a.word, FALSE) ELSE a

Is(a, word) == a = Arg(word, FALSE)

Routed(handler, stderr, status) == [handler |-> handler, stderr |-> stderr, exit |-> status]

route(argv, settled) ==
  LET subcommand == toLowerCase(argv[1])
      hookName == toLowerCase(argv[2])
      failed == settled = "rejects"
  IN IF Is(subcommand, "setup")
     THEN Routed("runSetup", IF failed THEN "Setup failed" ELSE "", IF failed THEN 1 ELSE 0)
     ELSE IF Is(subcommand, "hook")
     THEN IF Is(hookName, "precompact") THEN Routed("runHookPrecompact", "", 0)
          ELSE IF Is(hookName, "context-reload") THEN Routed("runHookContextReload", "", 0)
          ELSE Routed("none", "Unknown hook", 1)
     ELSE IF Is(subcommand, "verify")
     THEN Routed("runVerify", IF failed THEN "Verify failed" ELSE "", IF failed THEN 1 ELSE 0)
     ELSE IF Is(subcommand, "help") \/ Is(subcommand, "--help") \/ Is(subcommand, "-h")
     THEN Routed("showHelp", "", 0)
     ELSE IF Is(subcommand, "--version") \/ Is(subcommand, "-v") \/ Is(subcommand, "version")
     THEN Routed("version", "", 0)
     ELSE Routed("startMcpServer", "", "running")

Route(settled) ==
  /\ eval.fn = "input"
  /\ eval' = [fn |-> "route", arg |-> [argv |-> eval.arg.argv, settled |-> settled],
              out |-> route(eval.arg.argv, settled)]
  /\ UNCHANGED progVars

\* the hook commands that configureHooks installs, as argv[2] and argv[3]
\* of `cogmemai-mcp hook <name>`, and the handler of each
HookCommands ==
  { <<Arg("hook", FALSE), Arg("precompact", FALSE)>>,
    <<Arg("hook", FALSE), Arg("context-reload", FALSE)>>,
    <<Arg("hook", FALSE), Arg("stop", FALSE)>> }

HandlerOf(hookName) ==
  CASE hookName = "precompact" -> "runHookPrecompact"
    [] hookName = "context-reload" -> "runHookContextReload"
    [] hookName = "stop" -> "runHookStop"

(***************************************************************************)
(* configureHooks.  ~/.claude/settings.json is missing, holds text that    *)
(* JSON.parse rejects (value is what the text was meant to say), or holds  *)
(* a settings object: its top-level keys other than hooks, and hooks,      *)
(* undefined or an object with a value per hook event.  Such a value is    *)
(* undefined, an array of entries, or something that is not an array.  A   *)
(* command is the sequence of its words.                                   *)
(***************************************************************************)
Undefined == [k |-> "undefined"]
NotArray == [k |-> "object"]
Array(items) == [k |-> "array", items |-> items]
TypeError == [k |-> "throw"]

HookEvents == {"PreCompact", "UserPromptSubmit", "Stop"}
HookCommand(type, command, timeout) == [type |-> type, command |-> command, timeout |-> timeout]
Entry(hooks) == [hooks |-> hooks]

CommandOf ==
  [ PreCompact |-> <<"cogmemai-mcp", "hook", "precompact">>,
    UserPromptSubmit |-> <<"cogmemai-mcp", "hook", "context-reload">>,
    Stop |-> <<"cogmemai-mcp", "hook", "stop">> ]
TimeoutOf ==
  [ PreCompact |-> HookTimeout.precompact,
    UserPromptSubmit |-> HookTimeout.prompt,
    Stop |-> HookTimeout.stop ]

SettingsObject(keys, hooks) == [keys |-> keys, hooks |-> hooks]
HooksObject(events) == [k |-> "object", events |-> events]
EmptySettings == SettingsObject({}, Undefined)
EmptyHooks == HooksObject([e \in HookEvents |-> Undefined])

MissingFile == [k |-> "missing"]
InvalidFile(value) == [k |-> "invalid", value |-> value]
JsonFile(value) == [k |-> "json", value |-> value]

\* String.prototype.includes, on words
includes(command, part) ==
  \E i \in 0..(Len(command) - Len(part)) : SubSeq(command, i + 1, i + Len(part)) = part

\* variant of hasCogmemaiHook: no hook is ever found
hasCogmemaiHookNever(hookArray, command) == FALSE

hasCogmemaiHook(hookArray, command) ==
  IF hookArray.k # "array" THEN FALSE
  ELSE \E i \in 1..Len(hookArray.items) :
          \E j \in 1..Len(hookArray.items[i].hooks) :
             includes(hookArray.items[i].hooks[j].command, command)

\* if (!settings.hooks.X) settings.hooks.X = [];
\* if (!hasCogmemaiHook(settings.hooks.X, command)) settings.hooks.X.push(...)
AddHook(hookArray, command, timeout) ==
  LET array == IF hookArray = Undefined THEN Array(<<>>) ELSE hookArray
  IN IF hasCogmemaiHook(array, command) THEN array
     ELSE IF array.k # "array" THEN TypeError
     ELSE Array(Append(array.items, Entry(<<HookCommand("command", command, timeout)>>)))

\* fault: whether mkdirSync or writeFileSync throws
configureHooks(file, fault) ==
  LET settings == IF file.k = "json" THEN file.value ELSE EmptySettings
      hooks == IF settings.hooks = Undefined THEN EmptyHooks ELSE settings.hooks
      added == [e \in HookEvents |-> AddHook(hooks.events[e], CommandOf[e], TimeoutOf[e])]
  IN IF (\E e \in HookEvents : added[e] = TypeError) \/ fault
     THEN [success |-> FALSE, file |-> file]
     ELSE [success |-> TRUE,
           file |-> JsonFile(SettingsObject(settings.keys, HooksObject(added)))]

Configure(fault) ==
  /\ eval.fn = "input"
  /\ eval' = [fn |-> "configureHooks", arg |-> eval.arg,
              out |-> <<configureHooks(eval.arg, fault)>>]
  /\ UNCHANGED progVars

ConfigureAgain(fault) ==
  /\ eval.fn = "configureHooks"
  /\ Len(eval.out) = 1
  /\ eval' = [eval EXCEPT !.out = Append(@, configureHooks(eval.out[1].file, fault))]
  /\ UNCHANGED progVars

Precompact(ps, sids) ==
  \/ \E p \in ps, sid \in sids, key \in BOOLEAN, pr \in ProjectIds :
       PrecompactBegin(p, sid, "", key, pr)
  \/ \E p \in ps, outcome \in PostOutcomes, fault \in PrecompactFaults, skipped \in SUBSET StaleFiles :
       PrecompactEnd(p, outcome, fault, skipped)

Prompt(ps, sids, paths) ==
  \/ \E p \in ps, sid \in sids, path \in paths, key \in BOOLEAN, pr \in ProjectIds,
        fault \in PromptBeginFaults :
       PromptBegin(p, sid, path, key, pr, fault)
  \/ \E p \in ps, outcome \in FetchOutcomes, fault \in PromptEndFaults :
       PromptEnd(p, outcome, fault)
  \/ \E p \in ps, outcome \in FetchOutcomes, fault \in PromptEndFaults :
       RecallEnd(p, outcome, fault)

Stop(ps, sids, paths) ==
  \/ \E p \in ps, sid \in sids, path \in paths, key \in BOOLEAN, pr \in ProjectIds,
        active \in BOOLEAN, fault \in StopBeginFaults :
       StopBegin(p, sid, path, key, pr, active, fault)
  \/ \E p \in ps, outcome \in PostOutcomes, fault \in StopMidFaults :
       StopMid(p, outcome, fault)
  \/ \E p \in ps, outcome \in PostOutcomes, fault \in StopEndFaults :
       StopEnd(p, outcome, fault)

PromptPaths == {"", "missing", "t_two", "t_rich", "t_next"}
StopPaths ==
  {"", "missing", "t_short", "t_two", "t_rich", "t_seven", "t_oneuser", "t_thirty"}

\* the prompt-submit and pre-compaction hooks of one session, one process
\* at a time
PromptDeltas == {SMART_RECALL_COOLDOWN, COMPACTION_FLAG_MAX_AGE + 1, SESSION_EXPIRY_SECONDS + 1}
\* one outcome of each kind: a throw, a non-2xx status, a body that does
\* not parse, a body with content
PromptOutcomes == {"throw", "http_error", "bad_body", "content"}

NextPrompt ==
  \/ \E d \in PromptDeltas : AllIdle /\ Tick(d)
  \/ AllIdle /\ ToolContext
  \/ Precompact({"p1"}, {<<"a">>})
  \/ \E path \in PromptPaths, key \in BOOLEAN, pr \in ProjectIds, fault \in PromptBeginFaults :
       PromptBegin("p1", <<"a">>, path, key, pr, fault)
  \/ \E outcome \in PromptOutcomes, fault \in PromptEndFaults :
       PromptEnd("p1", outcome, fault)
  \/ \E outcome \in PromptOutcomes, fault \in PromptEndFaults :
       RecallEnd("p1", outcome, fault)
  \/ Exit("p1")

SpecPrompt == Init /\ [][NextPrompt]_vars

\* the stop hook of two sessions, one process at a time
StopDeltas == {SUMMARY_cooldownSeconds, AUTO_EXTRACT_COOLDOWN}

NextStop ==
  \/ \E d \in StopDeltas : AllIdle /\ Tick(d)
  \/ Stop({"p1"}, {<<"a">>, <<"b">>}, StopPaths)
  \/ Exit("p1")

SpecStop == Init /\ [][NextStop]_vars

\* the stop hook of one session, in processes that may overlap; the clock
\* advances at any point
RacePaths == {"t_short", "t_rich"}
RaceDeltas == {SUMMARY_cooldownSeconds}

NextStopRace ==
  \/ \E d \in RaceDeltas : Tick(d)
  \/ Stop(Procs, {<<"a">>}, RacePaths)
  \/ \E p \in Procs : Exit(p)

SpecStopRace == Init /\ [][NextStopRace]_vars

\* the three hooks, with well-formed and malformed stdin (no session id, no
\* transcript path), one process at a time; the clock stands still
HookSessions == {<<>>, <<"a">>}
HookPaths == {"", "missing", "t_rich"}

Next ==
  \/ AllIdle /\ ToolContext
  \/ Precompact({"p1"}, HookSessions)
  \/ Prompt({"p1"}, HookSessions, HookPaths)
  \/ Stop({"p1"}, HookSessions, HookPaths)
  \/ Exit("p1")

Spec == Init /\ [][Next]_vars

\* one session's pre-compaction hook and prompt-submit invocations that
\* follow one another: an invocation runs in p1, whose slot then records
\* how it ended; the prompt-submit invocation that follows it runs in p2,
\* after p1 has finished.  Time passes only between invocations.
ReloadDeltas == {COMPACTION_FLAG_MAX_AGE, COMPACTION_FLAG_MAX_AGE + 1}

FirstDone == procs["p1"].pc = "done"

NextReload ==
  \/ \E d \in ReloadDeltas :
       /\ procs["p1"].pc \in {"idle", "done"}
       /\ procs["p2"].pc = "idle"
       /\ Tick(d)
  \/ procs["p2"].pc = "idle" /\ Precompact({"p1"}, {<<"a">>})
  \/ \E key \in BOOLEAN, pr \in ProjectIds, fault \in PromptBeginFaults :
       procs["p2"].pc = "idle" /\ PromptBegin("p1", <<"a">>, "", key, pr, fault)
  \/ \E key \in BOOLEAN, pr \in ProjectIds, fault \in PromptBeginFaults :
       FirstDone /\ PromptBegin("p2", <<"a">>, "", key, pr, fault)
  \/ \E p \in Procs, outcome \in FetchOutcomes, fault \in PromptEndFaults :
       PromptEnd(p, outcome, fault)
  \/ procs["p2"].pc = "idle" /\ Exit("p1")
  \/ Exit("p2")

SpecReload == Init /\ [][NextReload]_vars

\* two sessions side by side: the pre-compaction and prompt-submit hooks of
\* session a in p1, the three hooks of session b in p2, in any interleaving;
\* between invocations enough time can pass for flag files to go stale.
\* An API key resolves and no file operation fails.
CrossDeltas == {STALE_FLAG_MAX_AGE + 1}
CrossOutcomes == {"throw", "content"}
CrossSession == [p1 |-> <<"a">>, p2 |-> <<"b">>]

NextCross ==
  \/ \E d \in CrossDeltas : AllIdle /\ Tick(d)
  \/ \E p \in Procs, pr \in ProjectIds : PrecompactBegin(p, CrossSession[p], "", TRUE, pr)
  \/ \E p \in Procs : PrecompactEnd(p, "ok", "none", {})
  \/ \E p \in Procs, pr \in ProjectIds : PromptBegin(p, CrossSession[p], "", TRUE, pr, "none")
  \/ \E p \in Procs, outcome \in CrossOutcomes : PromptEnd(p, outcome, "none")
  \/ \E pr \in ProjectIds : StopBegin("p2", <<"b">>, "t_rich", TRUE, pr, FALSE, "none")
  \/ \E outcome \in PostOutcomes : StopMid("p2", outcome, "none")
  \/ \E outcome \in PostOutcomes : StopEnd("p2", outcome, "none")
  \/ \E p \in Procs : Exit(p)

SpecCross == Init /\ [][NextCross]_vars

\* one api() call after another
Jitters == {0, JitterBound - 1}

NextApi ==
  \/ ApiBegin
  \/ \E outcome \in Responses \cup FetchThrows, jitter \in Jitters : FetchSettles(outcome, jitter)
  \/ BackoffEnds
  \/ ApiEnd
  \/ ApiExit

SpecApi == Init /\ [][NextApi]_vars

\* the prompt-submit hook of one session, await by await.  The remote
\* service answers when it pleases or never; what the process itself
\* schedules is the timer of hookFetch, which fires if fetch stays pending.
ExchangePaths == {"", "t_two", "t_rich"}

NextExchange ==
  \/ AllIdle /\ ToolContext
  \/ Precompact({"p1"}, {<<"a">>})
  \/ \E path \in ExchangePaths, key \in BOOLEAN, pr \in ProjectIds, fault \in PromptBeginFaults :
       PromptBegin("p1", <<"a">>, path, key, pr, fault)
  \/ HookFetchAborts("p1")
  \/ \E ok \in BOOLEAN, fault \in PromptEndFaults : ContextResponds("p1", ok, fault)
  \/ \E outcome \in BodyOutcomes : ContextBody("p1", outcome)
  \/ \E ok \in BOOLEAN : RecallResponds("p1", ok)
  \/ \E outcome \in BodyOutcomes, fault \in PromptEndFaults : RecallBody("p1", outcome, fault)
  \/ Exit("p1")

SpecExchange ==
  /\ Init
  /\ [][NextExchange]_vars
  /\ WF_vars(HookFetchAborts("p1"))
  /\ WF_vars(PrecompactEnd("p1", "throw", "none", {}))

\* key sanitization of identifiers of up to MaxIdTail characters, safe and
\* unsafe, alone and after MaxKeyLen - 1 safe or unsafe ones
IdChars == {"a", "b", "_", "/", "."}
Repeat(c, n) == [i \in 1..n |-> c]
ShortIds == UNION {[1..n -> IdChars] : n \in 0..MaxIdTail}
LongIds ==
  {Repeat(c, MaxKeyLen - 1) \o tail : c \in {"a", "/"}, tail \in ShortIds}

InitKeys == InitHooks /\ eval \in {Input(id) : id \in ShortIds \cup LongIds}

NextKeys ==
  \/ \E fn \in Sanitizers : Sanitize(fn)
  \/ SanitizeAgain

SpecKeys == InitKeys /\ [][NextKeys]_vars

\* the flag-file names of two session ids
InitKeyPairs == InitHooks /\ eval \in {Input(<<x, y>>) : x, y \in ShortIds}

NextKeyPairs == NameFlagFiles

SpecKeyPairs == InitKeyPairs /\ [][NextKeyPairs]_vars

\* the cap applied to contexts whose length is within ContextSlack of a
\* budget or of what is kept of a cut context, to short and to long ones
ContextLengths ==
  {1, 2 * NewSessionMaxChars}
    \cup UNION {(m - ContextSlack)..(m + ContextSlack) :
                 m \in {PostCompactionMaxChars - CondensedReserve, PostCompactionMaxChars,
                        NewSessionMaxChars - CondensedReserve, NewSessionMaxChars}}

InitCap ==
  /\ InitHooks
  /\ eval \in {Input([context |-> Context(n), isPostCompaction |-> post]) :
                 n \in ContextLengths, post \in BOOLEAN}

NextCap == Cap

SpecCap == InitCap /\ [][NextCap]_vars

\* cleanStaleFlagFiles on a missing directory and on directories of up to
\* three files, each new, exactly STALE_FLAG_MAX_AGE old or a second older,
\* under every combination of per-file faults
SweepNames == {ErrorLog, "compacted-a", "session-b"}
SweepAges == {0, STALE_FLAG_MAX_AGE, STALE_FLAG_MAX_AGE + 1}
SweepDirs ==
  {MissingDir}
    \cup {Directory(e) : e \in [SweepNames -> {Absent} \cup {File(StartTime - a) : a \in SweepAges}]}

InitSweep ==
  /\ InitHooks
  /\ eval \in {Input([dir |-> d, t |-> StartTime, faults |-> f]) :
                 d \in SweepDirs, f \in [SweepNames -> SweepFaults]}

NextSweep == Sweep

SpecSweep == InitSweep /\ [][NextSweep]_vars

\* the router on every pair of a subcommand and a second argument, in lower
\* case and capitalised, given or not
RouteWords ==
  {"setup", "hook", "verify", "help", "--help", "-h", "--version", "-v", "version",
   "precompact", "context-reload", "stop", "serve"}
RouteArgs == {NotGiven} \cup {Arg(w, c) : w \in RouteWords, c \in BOOLEAN}
Settlements == {"resolves", "rejects"}

InitRoute ==
  /\ InitHooks
  /\ eval \in {Input([argv |-> <<a, b>>]) : a \in RouteArgs, b \in RouteArgs}

NextRoute == \E settled \in Settlements : Route(settled)

SpecRoute == InitRoute /\ [][NextRoute]_vars

\* the pre-compaction and prompt-submit hooks of one session in two
\* processes that may overlap; an API key resolves, no file operation
\* fails, a remote call throws or returns content; the clock advances at
\* any point
OverlapDeltas == {SMART_RECALL_COOLDOWN, SESSION_EXPIRY_SECONDS + 1}
OverlapOutcomes == {"throw", "content"}

NextOverlap ==
  \/ \E d \in OverlapDeltas : Tick(d)
  \/ AllIdle /\ ToolContext
  \/ \E p \in Procs, pr \in ProjectIds : PrecompactBegin(p, <<"a">>, "", TRUE, pr)
  \/ \E p \in Procs : PrecompactEnd(p, "ok", "none", {})
  \/ \E p \in Procs, pr \in ProjectIds : PromptBegin(p, <<"a">>, "t_rich", TRUE, pr, "none")
  \/ \E p \in Procs, outcome \in OverlapOutcomes : PromptEnd(p, outcome, "none")
  \/ \E p \in Procs, outcome \in OverlapOutcomes : RecallEnd(p, outcome, "none")
  \/ \E p \in Procs : Exit(p)

SpecOverlap == Init /\ [][NextOverlap]_vars

\* one pre-compaction event of a session and the session's prompt-submit
\* invocations, in two processes that may overlap: the pre-compaction hook
\* runs in p1 while the session has neither flag nor marker, which it never
\* has again once the hook has ended (the flag stays until a context
\* response consumes it, and that step writes the marker); an API key
\* resolves, no file operation fails, and no flag gets stale
OnceDeltas == {SMART_RECALL_COOLDOWN}
NoFlagNoMarker(sid) ==
  ~Exists(compacted[SessionKey(sid)]) /\ ~Exists(marker[SessionKey(sid)])

NextCompactOnce ==
  \/ \E d \in OnceDeltas : Tick(d)
  \/ \E pr \in ProjectIds :
       NoFlagNoMarker(<<"a">>) /\ PrecompactBegin("p1", <<"a">>, "", TRUE, pr)
  \/ PrecompactEnd("p1", "ok", "none", {})
  \/ \E p \in Procs, pr \in ProjectIds : PromptBegin(p, <<"a">>, "", TRUE, pr, "none")
  \/ \E p \in Procs, outcome \in OverlapOutcomes : PromptEnd(p, outcome, "none")
  \/ \E p \in Procs : Exit(p)

SpecCompactOnce == Init /\ [][NextCompactOnce]_vars

\* configureHooks, run once and run again, on a settings file that is
\* missing, does not parse, or holds an object with or without another key
\* and with or without hooks; each hook event's value is undefined, an empty
\* array, an array with another tool's entry, with this tool's entry, with
\* both (this tool's command started through npx), or not an array
ForeignEntry == Entry(<<HookCommand("command", <<"prettier", "--write">>, 30)>>)
OwnEntry(e) == Entry(<<HookCommand("command", CommandOf[e], TimeoutOf[e])>>)
NpxEntry(e) == Entry(<<HookCommand("command", <<"npx">> \o CommandOf[e], 60)>>)
HookArraysOf(e) ==
  { Undefined, NotArray, Array(<<>>), Array(<<ForeignEntry>>), Array(<<OwnEntry(e)>>),
    Array(<<ForeignEntry, NpxEntry(e)>>) }
SettingsValues ==
  { SettingsObject(keys, hooks) :
      keys \in {{}, {"model"}},
      hooks \in {Undefined}
                  \cup {HooksObject(ev) :
                          ev \in {f \in [HookEvents -> UNION {HookArraysOf(e) : e \in HookEvents}] :
                                    \A e \in HookEvents : f[e] \in HookArraysOf(e)}} }
SettingsFiles ==
  {MissingFile} \cup {InvalidFile(v) : v \in SettingsValues}
                \cup {JsonFile(v) : v \in SettingsValues}

InitConfigure ==
  /\ InitHooks
  /\ eval \in {Input(file) : file \in SettingsFiles}

NextConfigure ==
  \/ \E fault \in BOOLEAN : Configure(fault)
  \/ \E fault \in BOOLEAN : ConfigureAgain(fault)

SpecConfigure == InitConfigure /\ [][NextConfigure]_vars

\* matchTopics on up to two extracted keywords (extractKeywords yields no
\* keyword twice) and an index of up to MaxTopics topics
Injective(seq) == \A i, j \in 1..Len(seq) : seq[i] = seq[j] => i = j
KeywordPool == {W_stripe, W_webhook, W_hook, W_web, W_docker}
TopicPool ==
  { Topic("t1", <<W_stripe>>, 9),
    Topic("t2", <<W_webhook, W_hook>>, 4),
    Topic("t3", <<W_stripe, W_payments>>, 7),
    Topic("t5", <<W_trip>>, 5),
    Topic("infra", <<W_docker>>, 2) }
KeywordLists == UNION {{ks \in [1..n -> KeywordPool] : Injective(ks)} : n \in 0..2}
TopicLists == UNION {{ts \in [1..n -> TopicPool] : Injective(ts)} : n \in 0..MaxTopics}

InitMatch ==
  /\ InitHooks
  /\ eval \in {Input([keywords |-> ks, topicIndex |-> ts]) : ks \in KeywordLists, ts \in TopicLists}

NextMatch == Match

SpecMatch == InitMatch /\ [][NextMatch]_vars

\* the transcript scanners, each applied to transcripts of up to MaxLines
\* lines and to the same lines after six earlier ones
LineKinds ==
  {BadLine, NoMsg, NoContent, U(M_stripe), U(M_mid), U(M_ok), A(M_reply), T(M_mid, "f1")}
EarlierLines == <<U(M_deploy), BadLine, A(M_reply), NoMsg, T(EmptyText, "f2"), BadLine>>
ShortTranscripts == UNION {[1..n -> LineKinds] : n \in 1..MaxLines}
ScanInputs ==
  ShortTranscripts \cup {EarlierLines \o lines : lines \in {l \in ShortTranscripts : Len(l) >= 2}}
LastMessages == {EmptyText, M_mid, M_reply}

InitScan == InitHooks /\ eval \in {Input(lines) : lines \in ScanInputs}

NextScan == \E fn \in Scanners, lastMessage \in LastMessages : Scan(fn, lastMessage)

SpecScan == InitScan /\ [][NextScan]_vars

(***************************************************************************)
(* Properties.  A step in which process p starts an invocation of a hook   *)
(* is Started(p, hook); the predicates on files below state freshness with *)
(* the thresholds of config.ts.                                            *)
(***************************************************************************)
Started(p, hook) ==
  /\ procs[p].pc = "idle"
  /\ procs'[p].pc # "idle"
  /\ procs'[p].hook = hook

ParsesWithin(f, maxAge) == f.k = "json" /\ now - f.timestamp <= maxAge

OnlySmartRecall(calls) == calls \in {<<>>, <<"smart-recall">>}

\* C1: no invocation of runHookPrecompact, runHookContextReload or
\* runHookStop ever leaves an exception uncaught, whatever stdin, the
\* transcript, the flag directory, the API key or the remote side do.
C1_NoHookRaises == \A p \in Procs : ~procs[p].raised

\* a finished invocation in which an operation failed, was caught and logged
C1_Witness ==
  \E p \in Procs :
    /\ procs[p].pc = "done"
    /\ procs[p].faults # {}
    /\ procs[p].logged # <<>>
    /\ ~procs[p].raised

\* C2: a prompt-submit invocation that finds a compaction flag older than
\* COMPACTION_FLAG_MAX_AGE deletes it and then acts as if there had been no
\* flag: a new-session context load (limit 20) when the marker is absent,
\* unparsable or expired, the smart-recall path otherwise, and never the
\* post-compaction reload.  (Stated for invocations in which the API key
\* resolves and no file operation fails.)
C2_StaleFlagActsAsAbsent ==
  [][\A p \in Procs :
       LET r == procs'[p]
           k == SessionKey(r.sid)
       IN (/\ Started(p, "prompt")
           /\ compacted[k].k = "json"
           /\ now - compacted[k].timestamp > COMPACTION_FLAG_MAX_AGE
           /\ r.apiKey
           /\ r.faults = {})
          => /\ compacted'[k] = Absent
             /\ r.calls # <<"context?limit=15">>
             /\ IF ParsesWithin(marker[k], SESSION_EXPIRY_SECONDS)
                THEN r.pc \in {"done", "recall"} /\ OnlySmartRecall(r.calls)
                ELSE r.pc = "context" /\ r.calls = <<"context?limit=20">>]_vars

C4_OngoingNeverLoadsContext ==
  [][\A p \in Procs :
       LET r == procs'[p]
           k == SessionKey(r.sid)
       IN /\ (/\ Started(p, "prompt")
              /\ ~Exists(compacted[k])
              /\ ParsesWithin(marker[k], SESSION_EXPIRY_SECONDS)
              /\ "readMarker" \notin r.faults)
             => r.pc \in {"done", "recall"} /\ OnlySmartRecall(r.calls)
          /\ procs[p].pc = "recall" => r.calls = <<"smart-recall">>]_vars

\* an ongoing session whose invocation has issued the smart-recall call
C4_Witness ==
  \E p \in Procs :
    LET k == SessionKey(procs[p].sid)
    IN /\ procs[p].pc = "recall"
       /\ procs[p].calls = <<"smart-recall">>
       /\ ~Exists(compacted[k])
       /\ ParsesWithin(marker[k], SESSION_EXPIRY_SECONDS)

\* C5 as stated: of two consecutive prompt-submit invocations of a session
\* within the expiry window of its marker, with no flag file changed by
\* another process in between, the second makes no network call.  (Stated
\* for a second invocation that finds no compaction flag and in which no
\* file operation fails.)
C5_SecondInvocationSilent ==
  [][\A p \in Procs :
       LET r == procs'[p]
           k == SessionKey(r.sid)
       IN (/\ Started(p, "prompt")
           /\ r.sid \in lastPrompt
           /\ ParsesWithin(marker[k], SESSION_EXPIRY_SECONDS)
           /\ ~Exists(compacted[k])
           /\ r.faults = {})
          => r.calls = <<>>]_vars

\* C5, amended: when the first invocation left no compaction flag and the
\* second reads the marker, the second never calls the context endpoint; it
\* can make one smart-recall call, and only when SMART_RECALL_COOLDOWN has
\* passed since the marker's last_smart_recall and a cached topic matches.
C5_SecondInvocationNoReload ==
  [][\A p \in Procs :
       LET r == procs'[p]
           k == SessionKey(r.sid)
       IN (/\ Started(p, "prompt")
           /\ r.sid \in lastPrompt
           /\ ParsesWithin(marker[k], SESSION_EXPIRY_SECONDS)
           /\ ~Exists(compacted[k])
           /\ "readMarker" \notin r.faults)
          => /\ OnlySmartRecall(r.calls)
             /\ r.calls # <<>> =>
                  /\ now - marker[k].last_smart_recall >= SMART_RECALL_COOLDOWN
                  /\ r.matches # <<>>]_vars

\* the second of two consecutive invocations has issued a smart-recall call
C5_Witness ==
  \E p \in Procs :
    /\ procs[p].hook = "prompt"
    /\ procs[p].pc = "recall"
    /\ procs[p].sid \in lastPrompt
    /\ procs[p].calls = <<"smart-recall">>

\* C6: when the up-to-5 top-ranked topics matched by the current message
\* are exactly the set in the marker's last_smart_topics, trySmartRecall
\* makes no remote call, emits nothing and leaves the marker unchanged,
\* however many lower-ranked topics match as well.
C6_NoveltyCheck ==
  [][\A p \in Procs :
       LET r == procs'[p]
           k == SessionKey(r.sid)
           top == SubSeq(r.matches, 1, Min(Len(r.matches), MaxInjectedTopics))
       IN (/\ Started(p, "prompt")
           /\ r.cls = "ongoing"
           /\ r.matches # <<>>
           /\ Range(top) = Range(marker[k].last_smart_topics))
          => /\ r.calls = <<>>
             /\ r.stdout = <<>>
             /\ marker' = marker]_vars

\* C7: two smart-recall calls of one session are at least
\* SMART_RECALL_COOLDOWN apart, whatever the earlier call produced.
C7_RecallCallsApart ==
  [][\A p \in Procs :
       LET r == procs'[p]
       IN (Started(p, "prompt") /\ r.pc = "recall")
          => \A t \in lastRecallAt[r.sid] : now - t >= SMART_RECALL_COOLDOWN]_vars

\* C8: whenever autoExtractFromSession has attempted the extract POST, it
\* then writes the last-extract cooldown flag with the current timestamp,
\* after a response (2xx or not) and after a timeout or network failure
\* alike.  (Stated for attempts whose write of the flag does not fail.)
C8_CooldownWrittenAfterAttempt ==
  [][\A p \in Procs :
       (/\ procs[p].pc = "extract"
        /\ procs'[p].pc = "done"
        /\ "writeCooldown" \notin procs'[p].faults)
       => /\ lastExtract'.k = "json"
          /\ lastExtract'.mtime = now
          /\ lastExtract'.timestamp = procs[p].t0]_vars

\* C9: across all sessions, two extract POSTs are never issued less than
\* AUTO_EXTRACT_COOLDOWN apart.
C9_ExtractPostsApart ==
  [][\A p \in Procs :
       (procs[p].pc = "stopsummary" /\ procs'[p].pc = "extract")
       => \A t \in lastExtractAt : now - t >= AUTO_EXTRACT_COOLDOWN]_vars

HasLinesAndUserTurns(path, minLines, minUsers, minLen) ==
  /\ path \in DOMAIN TranscriptFiles
  /\ Len(TranscriptFiles[path]) >= minLines
  /\ \E turns \in SUBSET (1..Len(TranscriptFiles[path])) :
       /\ Cardinality(turns) = minUsers
       /\ \A i \in turns :
            LET line == TranscriptFiles[path][i]
            IN line.json /\ line.role = "user" /\ line.text.len > minLen

\* the transcripts of the model that pass: 8 lines, 2 user turns of more
\* than 10 characters
WorthSummarizing == {path \in TranscriptPaths : HasLinesAndUserTurns(path, 8, 2, 10)}

\* C11: the stop hook issues a session-summary or extract POST, and writes
\* a summary flag, only for a transcript with at least 8 lines and at least
\* 2 user turns whose trimmed text is longer than 10 characters; for every
\* other transcript (also a missing or unreadable one) the invocation ends
\* at once with no remote call and no flag written.
C11_SummaryOnlyWhenSubstantial ==
  [][\A p \in Procs :
       /\ (/\ procs'[p].hook = "stop"
           /\ procs'[p].calls # procs[p].calls \/ summary' # summary)
          => \E path \in {procs[p].path, procs'[p].path} : path \in WorthSummarizing
       /\ Started(p, "stop")
          => \/ /\ procs'[p].pc = "done"
                /\ procs'[p].calls = <<>>
                /\ files' = files
             \/ \A path \in TranscriptPaths \ WorthSummarizing, pr \in ProjectIds,
                   active \in BOOLEAN, fault \in StopBeginFaults :
                  ~StopBegin(p, procs'[p].sid, path, procs'[p].apiKey, pr, active, fault)]_vars

\* a stop invocation on a transcript of exactly 8 lines and 2 such user
\* turns has posted the summary and written the summary flag
C11_Witness ==
  \E p \in Procs :
    /\ procs[p].hook = "stop"
    /\ procs[p].pc = "done"
    /\ procs[p].calls = <<"session-summary">>
    /\ procs[p].stdout = <<"{}">>
    /\ summary[SessionKey(procs[p].sid)] = SummaryFlag(now, procs[p].sid)
    /\ WorthSummarizing = {"t_two", "t_rich", "t_next", "t_thirty"}

C13_OneOutputOnlyWithContent ==
  \A p \in Procs :
    LET r == procs[p]
    IN /\ Len(r.stdout) <= 1
       /\ (r.hook = "prompt" /\ r.stdout # <<>>)
          => /\ r.response \in DOMAIN JsonBody
             /\ LET data == JsonBody[r.response]
                IN IF r.calls = <<"smart-recall">>
                   THEN data.memories >= 1
                   ELSE /\ data.formatted_context \/ data.memories >= 1
                        /\ data.total_count # {0}

\* a context taken from the memory lists of a response without
\* formatted_context has been written to stdout
C13_Witness ==
  \E p \in Procs :
    /\ procs[p].hook = "prompt"
    /\ procs[p].response = "memories_only"
    /\ procs[p].calls = <<"context?limit=20">>
    /\ procs[p].stdout = <<"context">>

\* C14: an invocation that finds a flag file present but unparsable (its
\* read or JSON.parse throws) classifies, calls and prints as it would
\* with that file absent:
\*   compaction flag  the marker decides: smart-recall path for a fresh
\*                    marker, new-session load (limit 20) otherwise
\*   session marker   new session: context load (limit 20) if a key resolves
\*   topic cache      ongoing, no call, no output
\*   summary flag     no cooldown: the summary is posted for a substantial
\*                    transcript when a key resolves
\*   extract cooldown no cooldown: the extract is posted when the
\*                    transcript yields a payload
C14_UnparsableActsAsAbsent ==
  [][\A p \in Procs :
       LET r == procs'[p]
           k == SessionKey(r.sid)
       IN /\ (Started(p, "prompt") /\ "readFlag" \in r.faults)
             => IF ParsesWithin(marker[k], SESSION_EXPIRY_SECONDS)
                THEN r.cls = "ongoing" /\ OnlySmartRecall(r.calls)
                ELSE r.cls = "new_session" /\ r.calls = <<"context?limit=20">>
          /\ (Started(p, "prompt") /\ "readMarker" \in r.faults)
             => /\ r.cls = "new_session"
                /\ r.calls = IF r.apiKey THEN <<"context?limit=20">> ELSE <<>>
                /\ r.stdout = <<>>
          /\ (Started(p, "prompt") /\ "readCache" \in r.faults)
             => /\ r.cls = "ongoing"
                /\ r.pc = "done"
                /\ r.calls = <<>>
                /\ r.stdout = <<>>
          /\ (Started(p, "stop") /\ "readFlag" \in r.faults)
             => \/ r.pc = "stopsummary" /\ r.calls = <<"session-summary">>
                \/ /\ r.pc = "done" /\ r.calls = <<>> /\ r.stdout = <<>>
                   /\ \A path \in WorthSummarizing, pr \in ProjectIds :
                        ~StopBegin(p, r.sid, path, TRUE, pr, FALSE, "readFlag")
          /\ (procs[p].pc = "stopsummary" /\ "readCooldown" \in r.faults)
             => IF PayloadOf[procs[p].path]
                THEN r.pc = "extract" /\ r.calls = <<"session-summary", "extract">>
                ELSE r.pc = "done" /\ r.calls = <<"session-summary">>]_vars

ContextCalls == {<<"context?limit=15">>, <<"context?limit=20">>}

\* the invocation recorded in slot r was a post-compaction or new-session
\* load whose context request failed: timeout or network error, non-2xx
\* status, or a body that does not parse
LoadFailed(r) ==
  /\ r.hook = "prompt"
  /\ r.pc = "done"
  /\ r.calls \in ContextCalls
  /\ r.response \in {"throw", "http_error", "bad_body"}
  /\ r.stdout = <<>>

\* C15: when a post-compaction or new-session prompt-submit invocation
\* injected nothing because its context request failed, the next
\* prompt-submit invocation of the session requests the context again.
\* (Stated for invocations in which an API key resolves and no file
\* operation fails.)
C15_FailedLoadRetried ==
  [][(/\ Started("p2", "prompt")
      /\ LoadFailed(procs["p1"])
      /\ procs["p1"].faults = {}
      /\ procs'["p2"].sid = procs["p1"].sid
      /\ procs'["p2"].apiKey
      /\ procs'["p2"].faults = {})
     => /\ procs'["p2"].pc = "context"
        /\ procs'["p2"].calls \in ContextCalls]_vars

\* the invocation recorded in slot r was a pre-compaction hook that ran to
\* its end with an API key and without a failing file operation
PrecompactCompleted(r) ==
  /\ r.hook = "precompact"
  /\ r.pc = "done"
  /\ r.apiKey
  /\ r.faults = {}
  /\ r.logged = <<>>

\* C16: after a pre-compaction hook has completed for a session with a
\* resolvable API key, the first prompt-submit invocation of the session
\* that follows, however much later, is classified post-compaction and
\* requests the context (limit 15); when the response carries non-empty
\* context it prints it as additionalContext.  (Stated for a prompt-submit
\* invocation in which the key resolves and no file operation fails.)
C16_RecoveryAfterCompaction ==
  [][/\ (/\ Started("p2", "prompt")
         /\ PrecompactCompleted(procs["p1"])
         /\ procs'["p2"].sid = procs["p1"].sid
         /\ procs'["p2"].apiKey
         /\ procs'["p2"].faults = {})
        => /\ procs'["p2"].cls = "post_compaction"
           /\ procs'["p2"].pc = "context"
           /\ procs'["p2"].calls = <<"context?limit=15">>
     /\ \A o \in {"content", "no_count", "memories_only"} :
          (/\ PrecompactCompleted(procs["p1"])
           /\ procs["p2"].sid = procs["p1"].sid
           /\ PromptEnd("p2", o, "none"))
          => procs'["p2"].stdout = <<"context">>]_vars

\* what a prompt-submit invocation of session sid would do if it started
\* now with an API key and no failing file operation
PromptClass(sid) ==
  LET flag == compacted[SessionKey(sid)]
      m == marker[SessionKey(sid)]
  IN IF Exists(flag)
     THEN IF FlagBad(flag, "none") THEN "flag dropped, no call" ELSE "context?limit=15"
     ELSE IF MarkerFresh(m) THEN "smart-recall path" ELSE "context?limit=20"

\* C17: a step of a hook invoked for one session leaves the compacted-,
\* session- and summary- files of every other session (one with another
\* sanitized id) as they were, and so leaves unchanged what the other
\* session's next prompt-submit invocation would classify, call and print.
C17_SessionsDoNotInterfere ==
  [][\A p \in Procs, other \in SessionIds :
       LET mine == procs'[p].sid
           ko == SessionKey(other)
       IN (/\ procs'[p] # procs[p]
           /\ procs'[p].hook # "none"
           /\ ko # SessionKey(mine))
          => /\ compacted'[ko] = compacted[ko]
             /\ marker'[ko] = marker[ko]
             /\ summary'[ko] = summary[ko]
             /\ PromptClass(other)' = PromptClass(other)]_vars

\* an attempt that calls for another one: it threw, or its response status
\* is in the allow-list {408, 429, 500, 502, 503, 504}
CallsForRetry(outcome) ==
  \/ outcome.kind = "error"
  \/ outcome.kind = "response" /\ outcome.status \in {408, 429, 500, 502, 503, 504}

StatusesOf(log) == [i \in 1..Len(log) |-> IF log[i].kind = "response" THEN log[i].status ELSE 0]

\* fetchWithRetry has returned or thrown (api() may have gone on since)
FetchOver == call.pc \in {"returned", "threw", "resolved", "rejected"}

\* C18: fetchWithRetry re-issues a request whose attempt threw or whose
\* response status is in the allow-list, until a response outside the
\* allow-list arrives or 2 retries have been used: never more than 3
\* attempts; every attempt but the last called for a retry; it ends only
\* on a response outside the allow-list or on the third attempt; and an
\* endpoint answering 503, 503, 200 yields the 200 of the third attempt.
C18_RetriesUntilBudget ==
  LET n == Len(call.log)
  IN /\ n <= 3
     /\ Len(call.delays) <= 2
     /\ \A i \in 1..(n - 1) : CallsForRetry(call.log[i])
     /\ call.pc = "backoff" => CallsForRetry(call.log[n]) /\ n <= 2
     /\ FetchOver => ~CallsForRetry(call.log[n]) \/ n = 3
     /\ call.res.kind = "response" => call.res = call.log[n]
     /\ StatusesOf(call.log) = <<503, 503, 200>>
          => FetchOver /\ call.res.kind = "response" /\ call.res.status = 200

\* 503, 503, 200: the third attempt's 200 has been returned after two
\* backoff delays
C18_Witness ==
  /\ call.pc = "returned"
  /\ StatusesOf(call.log) = <<503, 503, 200>>
  /\ call.res.status = 200
  /\ Len(call.delays) = 2

\* C19: a response with a non-2xx status outside the retry allow-list is
\* returned by fetchWithRetry from the attempt that received it: no
\* backoff delay follows it and no further attempt is made; as the answer
\* to the first attempt it is returned after exactly one attempt.
C19_ClientErrorNotRetried ==
  LET n == Len(call.log)
  IN \A i \in 1..n :
       LET res == call.log[i]
       IN (/\ res.kind = "response"
           /\ ~(res.status >= 200 /\ res.status <= 299)
           /\ res.status \notin {408, 429, 500, 502, 503, 504})
          => /\ i = n
             /\ FetchOver
             /\ call.res = res
             /\ Len(call.delays) = n - 1
             /\ call.attempt = n - 1

\* a 404 to the first attempt has been returned with no delay
C19_Witness ==
  /\ call.pc = "returned"
  /\ StatusesOf(call.log) = <<404>>
  /\ call.res.status = 404
  /\ call.delays = <<>>
  /\ call.attempt = 0

\* C20: api() rejects for every non-2xx response and every network or
\* timeout failure, with an error that is the remote error field when the
\* response body has one and 'HTTP <status>' otherwise, or the network or
\* timeout error when no response arrived; it resolves only with the body
\* of a 2xx response.
C20_UniformErrors ==
  LET res == call.res
      e == call.result
  IN /\ call.pc = "resolved" => res.kind = "response" /\ res.status \in 200..299
     /\ (call.pc \in {"resolved", "rejected"} /\ res.kind = "none")
        => /\ call.pc = "rejected"
           /\ e = call.lastError
           /\ e.kind = "error" /\ e.name \in {"TypeError", "timeout"}
     /\ (call.pc \in {"resolved", "rejected"} /\ res.kind = "response"
           /\ res.status \notin 200..299)
        => /\ call.pc = "rejected"
           /\ IF res.body = "error_field"
              THEN e.name = "remote"
              ELSE e.name = "HTTP" /\ e.status = res.status

\* C21: every hook invocation that has started terminates, whatever the
\* remote service does: the timeout of hookFetch covers the sending of the
\* request, the wait for the response and the reading of its body.
C21_EveryInvocationTerminates ==
  (procs["p1"].pc \notin {"idle", "done"}) ~> (procs["p1"].pc = "done")

\* an entry the scanners have no use for: the line is not JSON, or the
\* entry carries no role or no content
Skipped(line) == ~line.json \/ line.role = "none" \/ ~line.content

\* the lines lo..hi that hold a text of the given role longer than k
TextsOf(lines, role, k, lo, hi) ==
  {i \in lo..hi : ~Skipped(lines[i]) /\ lines[i].role = role /\ lines[i].text.len > k}

SetMin(S) == CHOOSE x \in S : \A y \in S : x <= y
SetMax(S) == CHOOSE x \in S : \A y \in S : x >= y

ToolFiles(lines, lo, hi) == UNION {lines[i].tool : i \in {j \in lo..hi : ~Skipped(lines[j])}}

\* C22: what each scanner returns is determined by the lines that parse and
\* carry a role and content, wherever they stand among the others: a line
\* that is not JSON or has no role/content is passed over and the lines
\* after it are still scanned; for a transcript made only of such lines
\* checkSessionSubstantial is false, getLastUserMessage is empty, the two
\* summaries have no task, request, file or conversation section and
\* buildExtractionPayload is null.
C22_ScannersSkipBadLines ==
  eval.fn \in Scanners =>
    LET lines == eval.arg
        n == Len(lines)
        out == eval.out
        onlySkipped == \A i \in 1..n : Skipped(lines[i])
        tasks == TextsOf(lines, "user", 30, 1, Min(n, 100))
        task == IF tasks = {} THEN EmptyText ELSE Cut(lines[SetMin(tasks)].text, 400)
        requests == TextsOf(lines, "user", 20, Max(1, n - 59), n)
        asked == TextsOf(lines, "user", 10, Max(1, n - 29), n)
        said == TextsOf(lines, "user", 15, Max(1, n - 39), n)
                  \cup TextsOf(lines, "assistant", 15, Max(1, n - 39), n)
    IN /\ eval.fn = "checkSessionSubstantial" =>
            /\ out = (n >= 8 /\ Cardinality(TextsOf(lines, "user", 10, 1, n)) >= 2)
            /\ onlySkipped => out = FALSE
       /\ eval.fn = "getLastUserMessage" =>
            /\ out = IF asked = {} THEN EmptyText
                     ELSE [lines[SetMax(asked)].text EXCEPT !.len = Min(@, 500)]
            /\ onlySkipped => out = EmptyText
       /\ eval.fn = "buildCompactionSummary" =>
            /\ out.task = task
            /\ out.request = IF requests = {} THEN EmptyText
                             ELSE LET r == Cut(lines[SetMax(requests)].text, 400)
                                  IN IF r = task THEN EmptyText ELSE r
            /\ out.files = ToolFiles(lines, Max(1, n - 149), n)
            /\ Len(out.conversation) = Min(8, Cardinality(said))
            /\ said # {} =>
                 out.conversation[Len(out.conversation)] =
                   [role |-> lines[SetMax(said)].role,
                    text |-> Cut(lines[SetMax(said)].text, 200)]
            /\ onlySkipped =>
                 /\ out.task = EmptyText /\ out.request = EmptyText
                 /\ out.files = {} /\ out.conversation = <<>>
       /\ eval.fn = "buildStopSummary" =>
            /\ out.task = task
            /\ out.files = ToolFiles(lines, Max(1, n - 149), n)
            /\ onlySkipped => out.task = EmptyText /\ out.files = {}
       /\ eval.fn = "buildExtractionPayload" =>
            /\ out.k = "null" <=>
                 Cardinality(TextsOf(lines, "user", 29, 1, n)) < AUTO_EXTRACT_MIN_USER_MESSAGES
            /\ out.k = "payload" =>
                 /\ Len(out.userMessages.texts) = Cardinality(TextsOf(lines, "user", 14, 1, n))
                 /\ Len(out.assistantResponses.texts)
                      = Cardinality(TextsOf(lines, "assistant", 14, 1, n))
            /\ onlySkipped => out.k = "null"

\* checkSessionSubstantial has found a transcript substantial whose second
\* user message stands after a line that is not JSON
C22_Witness ==
  /\ eval.fn = "checkSessionSubstantial"
  /\ eval.out = TRUE
  /\ \E i \in 1..Len(eval.arg) :
       /\ ~eval.arg[i].json
       /\ Cardinality(TextsOf(eval.arg, "user", 10, 1, i)) < SUMMARY_minUserMessages

\* C23: key sanitization is idempotent: the session key of a session key,
\* and the project key of a project key, is that key.
C23_SanitizeIdempotent ==
  (eval.fn \in Sanitizers /\ Len(eval.out) = 2) => eval.out[2] = eval.out[1]

\* an identifier of more than 64 characters with unsafe ones among them
\* has been sanitized twice, and so has one with no safe character
C23_Witness ==
  /\ eval.fn = "SessionKey"
  /\ Len(eval.out) = 2
  /\ Len(eval.arg) > MaxKeyLen
  /\ \E i \in 1..Len(eval.arg) : ~IsSafeChar(eval.arg[i])
  /\ Len(eval.out[1]) = MaxKeyLen

\* the safe characters of an identifier, in order
SafePart(id) == SelectSeq(id, IsSafeChar)

\* two distinct identifiers with the same characters of [A-Za-z0-9_-] in
\* the same order: they differ only in characters outside that set
DifferOnlyInUnsafe(x, y) == x # y /\ SafePart(x) = SafePart(y)

\* C24: two distinct session ids that differ only in characters outside
\* [A-Za-z0-9_-] have no flag file in common.
C24_DistinctIdsDistinctFiles ==
  (eval.fn = "FlagFiles" /\ DifferOnlyInUnsafe(eval.arg[1], eval.arg[2]))
    => eval.out[1] \cap eval.out[2] = {}

\* C25: an invocation of the prompt-submit hook that writes or refreshes
\* the session marker has emitted injected context: a step that finishes an
\* invocation and changes the marker of its session leaves output on stdout.
C25_MarkerOnlyWithOutput ==
  [][\A p \in Procs :
       (/\ procs[p].hook = "prompt"
        /\ procs'[p].pc = "done"
        /\ marker'[SessionKey(procs[p].sid)] # marker[SessionKey(procs[p].sid)])
       => procs'[p].stdout # <<>>]_vars

\* C26: a prompt-submit invocation whose context request is answered with a
\* 2xx response and a JSON body leaves the topic cache of its project
\* holding an index stamped with the current time.
C26_ContextLoadCachesTopics ==
  [][\A p \in Procs :
       (/\ procs[p].pc = "context"
        /\ procs'[p].pc = "done"
        /\ procs'[p].response \in DOMAIN JsonBody)
       => LET cache == topics'[ProjectKey(procs[p].project)]
          IN /\ Exists(cache)
             /\ cache.k = "json"
             /\ cache.timestamp = now']_vars

\* the transcripts whose most recent user turn is shorter than
\* SMART_RECALL_MIN_MSG_LENGTH
ShortLastTurn ==
  {path \in DOMAIN TranscriptFiles :
     LET lines == TranscriptFiles[path]
         turns == {i \in 1..Len(lines) : lines[i].json /\ lines[i].role = "user"}
     IN turns # {} /\ lines[SetMax(turns)].text.len < SMART_RECALL_MIN_MSG_LENGTH}

\* C27: a prompt-submit invocation in an ongoing session whose transcript
\* ends with a user turn shorter than SMART_RECALL_MIN_MSG_LENGTH finishes
\* at once with no remote call, no output and the session marker unchanged.
C27_ShortTurnNoRecall ==
  [][\A p \in Procs :
       (/\ Started(p, "prompt")
        /\ procs'[p].cls = "ongoing"
        /\ ~(/\ procs'[p].pc = "done"
             /\ procs'[p].calls = <<>>
             /\ procs'[p].stdout = <<>>
             /\ marker' = marker))
       => \A path \in ShortLastTurn, key \in BOOLEAN, pr \in ProjectIds,
             fault \in PromptBeginFaults :
            ~PromptBegin(p, procs'[p].sid, path, key, pr, fault)]_vars

\* a keyword equals, contains or is contained in some keyword of the topic
Relates(kw, topic) ==
  \E j \in 1..Len(topic.keywords) :
     \/ kw = topic.keywords[j]
     \/ Includes(topic.keywords[j], kw)
     \/ Includes(kw, topic.keywords[j])

\* C28: matchTopics returns one entry for each topic of the index that some
\* extracted keyword relates to, and no other; the entry's score is the
\* number of extracted keywords relating to the topic times the topic's
\* avg_importance; the entries stand in order of non-increasing score; for
\* the keywords stripe, webhook and a topic with the keywords stripe,
\* payments the score is 1 * avg_importance.
C28_MatchTopicsScores ==
  eval.fn = "matchTopics" =>
    LET keywords == eval.arg.keywords
        index == eval.arg.topicIndex
        out == eval.out
        related(t) == {i \in 1..Len(keywords) : Relates(keywords[i], index[t])}
        matched == {t \in 1..Len(index) : related(t) # {}}
    IN /\ Len(out) = Cardinality(matched)
       /\ \A t \in matched :
            \E i \in 1..Len(out) :
               /\ out[i].subject = index[t].subject
               /\ out[i].score = Cardinality(related(t)) * index[t].avg_importance
       /\ \A i, j \in 1..Len(out) : i < j => out[i].score >= out[j].score
       /\ keywords = <<W_stripe, W_webhook>> =>
            \A t \in 1..Len(index) :
               index[t].keywords = <<W_stripe, W_payments>> =>
                 \E i \in 1..Len(out) :
                    /\ out[i].subject = index[t].subject
                    /\ out[i].score = 1 * index[t].avg_importance

\* the keywords stripe, webhook against an index with the topic of keywords
\* stripe, payments after a topic only webhook relates to and one neither
\* keyword relates to
C28_Witness ==
  /\ eval.fn = "matchTopics"
  /\ eval.arg.keywords = <<W_stripe, W_webhook>>
  /\ Subjects(eval.arg.topicIndex) = <<"infra", "t2", "t3">>
  /\ eval.out = <<[subject |-> "t3", score |-> 7], [subject |-> "t2", score |-> 4]>>

\* the number of keywords of the last user message of the transcript at
\* path that match the topic standing first in matchTopics' result
BestTopicMatchCount(path, cache) ==
  LET best == MatchesOf[cache.topics][path][1].subject
      topic == CHOOSE t \in Range(cache.topics) : t.subject = best
  IN matchCount(KeywordsOf[path], topic)

\* C29: a prompt-submit invocation issues the smart-recall request only
\* when at least SMART_RECALL_MIN_MATCH_SCORE keywords of the user message
\* match the best-matching cached topic.
C29_RecallNeedsTwoKeywords ==
  [][\A p \in Procs :
       (Started(p, "prompt") /\ procs'[p].pc = "recall")
       => \A path \in DOMAIN TranscriptFiles, key \in BOOLEAN, pr \in ProjectIds,
             fault \in PromptBeginFaults :
            PromptBegin(p, procs'[p].sid, path, key, pr, fault)
            => BestTopicMatchCount(path, topics[ProjectKey(procs'[p].md.project_id)])
                 >= SMART_RECALL_MIN_MATCH_SCORE]_vars

\* C30: the context a full reload injects is at most 4000 characters long
\* after a compaction and at most 6000 for a new session, the truncation
\* marker included; a context within the budget is passed on as it is, a
\* longer one is cut and ends with the truncation marker.
C30_ContextWithinBudget ==
  eval.fn = "capContext" =>
    LET context == eval.arg.context
        budget == IF eval.arg.isPostCompaction THEN 4000 ELSE 6000
        out == eval.out
    IN /\ out.len <= budget
       /\ context.len <= budget => out = context
       /\ context.len > budget =>
            /\ out.condensed
            /\ out.kept < context.len
            /\ out.len = out.kept + CondensedMarkerLen

\* a context one character over the budget after a compaction has been
\* cut to 3920 characters and the marker
C30_Witness ==
  /\ eval.fn = "capContext"
  /\ eval.arg.isPostCompaction
  /\ eval.arg.context.len = 4001
  /\ eval.out = [len |-> 3991, kept |-> 3920, condensed |-> TRUE]

\* the number of user turns of the transcript at path whose text is longer
\* than k characters
UserTurnsLongerThan(path, k) ==
  IF ~Readable(path) THEN 0
  ELSE Cardinality(TextsOf(TranscriptFiles[path], "user", k, 1, Len(TranscriptFiles[path])))

\* a step of process p that issues the extract POST or writes the
\* extraction cooldown file
Extracts(p) ==
  /\ procs[p].hook = "stop"
  /\ \/ procs[p].pc = "stopsummary" /\ procs'[p].pc = "extract"
     \/ procs[p].pc = "extract" /\ lastExtract' # lastExtract

\* C31 as stated: the extract POST is issued and the cooldown file written
\* only for a transcript with at least AUTO_EXTRACT_MIN_USER_MESSAGES user
\* turns of more than AUTO_EXTRACT_MIN_MSG_LENGTH characters.
C31_ExtractNeedsLongerTurns ==
  [][\A p \in Procs :
       Extracts(p) =>
         UserTurnsLongerThan(procs[p].path, AUTO_EXTRACT_MIN_MSG_LENGTH)
           >= AUTO_EXTRACT_MIN_USER_MESSAGES]_vars

\* C31, amended: the extract POST is issued and the cooldown file written
\* only for a transcript with at least AUTO_EXTRACT_MIN_USER_MESSAGES user
\* turns of AUTO_EXTRACT_MIN_MSG_LENGTH characters or more.
C31_ExtractNeedsSubstantialTurns ==
  [][\A p \in Procs :
       Extracts(p) =>
         UserTurnsLongerThan(procs[p].path, AUTO_EXTRACT_MIN_MSG_LENGTH - 1)
           >= AUTO_EXTRACT_MIN_USER_MESSAGES]_vars

\* the extract POST is under way for a transcript with one user turn of 42
\* characters and two of exactly 30
C31_Witness ==
  \E p \in Procs :
     /\ procs[p].pc = "extract"
     /\ procs[p].path = "t_thirty"
     /\ procs[p].calls = <<"session-summary", "extract">>

\* process p starts a stop hook whose input has stop_hook_active = true
StartsActiveStop(p) ==
  /\ CanStart(p)
  /\ procs'[p].hook = "stop"
  /\ \E sid \in HookSessions, path \in HookPaths, key \in BOOLEAN, pr \in ProjectIds,
        fault \in StopBeginFaults :
       StopBegin(p, sid, path, key, pr, TRUE, fault)

\* C32: a stop hook whose input has stop_hook_active = true is over in its
\* first step: it has made no remote call, no file read of it was there to
\* fail, and every file of the flag directory is as it was.
C32_ActiveStopHookExitsAtOnce ==
  [][\A p \in Procs :
       StartsActiveStop(p) =>
         /\ procs'[p].pc = "done"
         /\ procs'[p].calls = <<>>
         /\ procs'[p].faults = {}
         /\ ~procs'[p].raised
         /\ files' = files
         /\ lastSummaryAt' = lastSummaryAt
         /\ lastExtractAt' = lastExtractAt]_vars

\* a stop hook with stop_hook_active = true has ended, for a session with an
\* API key and neither cooldown running, while flag files exist
C32_Witness ==
  \E p \in Procs :
     /\ procs[p].pc = "done"
     /\ procs[p].hook = "stop"
     /\ procs[p].cls = "active"
     /\ procs[p].sid = <<"a">>
     /\ procs[p].apiKey
     /\ procs[p].calls = <<>>
     /\ ~Exists(summary[SessionKey(<<"a">>)])
     /\ ~Exists(lastExtract)
     /\ Exists(compacted[SessionKey(<<"a">>)])

\* C33: a stop-hook invocation that has ended has printed exactly one empty
\* JSON object, whether it saved a summary, raised, or was skipped by a gate.
C33_StopAlwaysPrintsEmptyObject ==
  \A p \in Procs :
     procs[p].hook = "stop" /\ procs[p].pc = "done" => procs[p].stdout = <<"{}">>

\* process p ends a pre-compaction hook that got past the API-key check
\* and whose mkdir and flag write did not fail
PrecompactEnds(p) ==
  /\ procs[p].hook = "precompact"
  /\ procs[p].pc = "summary"
  /\ procs'[p].pc = "done"
  /\ procs'[p].faults \cap {"mkdir", "writeFlag"} = {}

\* the compaction flag of session sid holds the current time and the
\* session has no marker, after the step
FlagSetMarkerGone(sid) ==
  /\ compacted'[SessionKey(sid)] = CompactionFlag(now', sid)
  /\ ~Exists(marker'[SessionKey(sid)])

StaleIn(dir, f, t) ==
  Exists(dir.entries[f]) /\ t - dir.entries[f].mtime > STALE_FLAG_MAX_AGE

\* C35: cleanStaleFlagFiles never raises and never unlinks errors.log; of
\* the other files it unlinks exactly those more than STALE_FLAG_MAX_AGE old
\* that it could stat and unlink, and it leaves every younger file as it
\* was; on a missing directory it does nothing.
C35_SweepDeletesExactlyStale ==
  eval.fn = "cleanStaleFlagFiles" =>
    LET a == eval.arg
        o == eval.out
    IN /\ ~o.raised
       /\ ErrorLog \notin o.unlinked
       /\ a.dir.k = "missing" => o.dir = a.dir /\ o.unlinked = {}
       /\ a.dir.k = "dir" =>
            /\ o.dir.entries[ErrorLog] = a.dir.entries[ErrorLog]
            /\ \A f \in SweepNames \ {ErrorLog} :
                 /\ f \in o.unlinked <=> StaleIn(a.dir, f, a.t) /\ a.faults[f] = "none"
                 /\ f \in o.unlinked => ~Exists(o.dir.entries[f])
                 /\ ~StaleIn(a.dir, f, a.t) /\ a.faults[f] # "vanished"
                      => o.dir.entries[f] = a.dir.entries[f]

\* the sweep of a directory with a stale errors.log, a stale flag, and a
\* stale marker whose unlink fails has removed the flag alone
C35_Witness ==
  /\ eval.fn = "cleanStaleFlagFiles"
  /\ eval.arg.dir.k = "dir"
  /\ \A f \in SweepNames : StaleIn(eval.arg.dir, f, eval.arg.t)
  /\ eval.arg.faults = [f \in SweepNames |-> IF f = "session-b" THEN "unlink" ELSE "none"]
  /\ eval.out.unlinked = {"compacted-a"}
  /\ Exists(eval.out.dir.entries[ErrorLog])

\* C36: whatever path a hook invocation has taken, the time limits of the
\* remote calls and git lookups it has begun add up to less than the
\* timeout that configureHooks installs for its hook.
C36_LimitsBelowHostTimeout ==
  \A p \in Procs :
     procs[p].hook # "none" => WorstCaseMs(procs[p]) < 1000 * HookTimeout[procs[p].hook]

\* a stop hook has made both its remote calls and its git lookup
C36_Witness ==
  \E p \in Procs :
     /\ procs[p].hook = "stop"
     /\ procs[p].pc = "done"
     /\ procs[p].calls = <<"session-summary", "extract">>
     /\ procs[p].lookups = 1
     /\ WorstCaseMs(procs[p]) = 13000

\* C37: the router starts the handler of each hook command that
\* configureHooks installs, and the process exits with status 0.
C37_InstalledHooksDispatched ==
  eval.fn = "route" /\ eval.arg.argv \in HookCommands =>
    /\ eval.out.handler = HandlerOf(eval.arg.argv[2].word)
    /\ eval.out.exit = 0

\* process p ends a smart recall by rewriting the marker and printing the
\* recalled memories
RecallInjects(p) ==
  /\ procs[p].pc = "recall"
  /\ procs'[p].pc = "done"
  /\ procs'[p].stdout = <<"recall">>

\* the marker of p's session before and after the step differ at most in
\* last_smart_recall, last_smart_topics and project_id (and the file's
\* modification time)
MarkerKeepsIdentity(p) ==
  LET key_ == SessionKey(procs[p].sid)
  IN /\ Exists(marker[key_])
     /\ marker'[key_].timestamp = marker[key_].timestamp
     /\ marker'[key_].session_id = marker[key_].session_id

\* process p starts a prompt-submit invocation while its session has no
\* compaction flag and a readable marker whose timestamp is more than
\* SESSION_EXPIRY_SECONDS old
StartsOnExpiredMarker(p) ==
  /\ CanStart(p)
  /\ procs'[p].hook = "prompt"
  /\ LET key_ == SessionKey(procs'[p].sid)
     IN /\ ~Exists(compacted[key_])
        /\ Exists(marker[key_]) /\ marker[key_].k = "json"
        /\ now - marker[key_].timestamp > SESSION_EXPIRY_SECONDS

\* C38 as stated: a smart-recall injection leaves the timestamp and the
\* session_id of the session marker as they were, and a prompt that comes
\* more than SESSION_EXPIRY_SECONDS after the marker's timestamp is
\* classified as a new session.
C38_RecallKeepsMarkerTimestamp ==
  [][\A p \in Procs :
       /\ RecallInjects(p) => MarkerKeepsIdentity(p)
       /\ StartsOnExpiredMarker(p) => procs'[p].cls = "new_session"]_vars

\* C38, amended: the marker that a smart-recall injection writes has the
\* timestamp and the session_id of the marker that the invocation read
\* when it started; these are the ones of the marker file just before the
\* write unless another invocation rewrote or deleted the file in between.
\* A prompt that comes more than SESSION_EXPIRY_SECONDS after the marker's
\* timestamp is classified as a new session.
C38_RecallWritesBackWhatItRead ==
  [][\A p \in Procs :
       /\ RecallInjects(p) =>
            LET key_ == SessionKey(procs[p].sid)
            IN /\ marker'[key_].timestamp = procs[p].md.timestamp
               /\ marker'[key_].session_id = procs[p].md.session_id
               /\ marker[key_] = procs[p].md => MarkerKeepsIdentity(p)
       /\ StartsOnExpiredMarker(p) => procs'[p].cls = "new_session"]_vars

\* a session whose marker records a smart recall has gone on for more than
\* SESSION_EXPIRY_SECONDS since its context load, and its next prompt is
\* classified as a new session
C38_Witness ==
  \E p \in Procs :
     LET m == marker[SessionKey(procs[p].sid)]
     IN /\ procs[p].hook = "prompt" /\ procs[p].pc = "context"
        /\ procs[p].cls = "new_session"
        /\ Exists(m) /\ m.k = "json"
        /\ m.last_smart_recall > m.timestamp
        /\ m.last_smart_topics # <<>>
        /\ now - m.timestamp > SESSION_EXPIRY_SECONDS

\* the invocations at hand that were classified post-compaction and have
\* printed the recovered context
PostCompactionReloads ==
  {p \in Procs : /\ procs[p].hook = "prompt"
                 /\ procs[p].cls = "post_compaction"
                 /\ procs[p].stdout = <<"context">>}

\* C39: for the one pre-compaction event of the session, at most one
\* prompt-submit invocation performs the post-compaction reload and prints
\* the recovered context.
C39_OneReloadPerCompaction == Cardinality(PostCompactionReloads) <= 1

\* the settings that a file holds, or was meant to hold
ValueOf(file) == IF file.k = "missing" THEN EmptySettings ELSE file.value

\* every entry of the hook array before is an entry of the one after, in
\* the same order from the start
EntriesKept(before, after) ==
  IF before.k # "array" THEN before = Undefined \/ after = before
  ELSE /\ after.k = "array"
       /\ Len(after.items) >= Len(before.items)
       /\ SubSeq(after.items, 1, Len(before.items)) = before.items

\* the file after holds every settings key and every hook entry of the
\* file before
Preserved(before, after) ==
  \/ after = before
  \/ /\ after.k = "json"
     /\ ValueOf(before).keys \subseteq after.value.keys
     /\ ValueOf(before).hooks # Undefined =>
          \A e \in HookEvents :
             EntriesKept(ValueOf(before).hooks.events[e], after.value.hooks.events[e])

\* the settings hold a hook with each of the three commands
HasAllHooks(value) ==
  /\ value.hooks # Undefined
  /\ \A e \in HookEvents : hasCogmemaiHook(value.hooks.events[e], CommandOf[e])

\* a run after a successful run leaves the file that the first run left,
\* and a run on a file that parses and holds the three commands adds no
\* entry
Idempotent ==
  /\ Len(eval.out) = 2 /\ eval.out[1].success => eval.out[2].file = eval.out[1].file
  /\ eval.arg.k = "json" /\ HasAllHooks(eval.arg.value)
       => eval.out[1].file.value = eval.arg.value

\* C40 as stated: configureHooks is idempotent, and in every case the
\* settings keys and hook entries that were present are kept.
C40_ConfigureIdempotentPreserving ==
  eval.fn = "configureHooks" =>
    /\ Idempotent
    /\ Preserved(eval.arg, eval.out[1].file)

\* C40, amended: configureHooks is idempotent; the settings keys and hook
\* entries of a settings file that parses are kept, while a file that does
\* not parse is replaced by the settings that a missing file gets.
C40_ConfigureIdempotentPreservingParsed ==
  eval.fn = "configureHooks" =>
    /\ Idempotent
    /\ eval.arg.k # "invalid" => Preserved(eval.arg, eval.out[1].file)
    /\ eval.arg.k = "invalid" /\ eval.out[1].success
         => eval.out[1].file = configureHooks(MissingFile, FALSE).file

\* configureHooks has run twice on settings with another key, another
\* tool's PreCompact entry and this tool's Stop hook started through npx:
\* the first run added the two missing hooks behind what was there, the
\* second run added nothing
C40_Witness ==
  /\ eval.fn = "configureHooks"
  /\ Len(eval.out) = 2
  /\ eval.out[1].success /\ eval.out[2].success
  /\ eval.arg = JsonFile(SettingsObject({"model"},
                  HooksObject([e \in HookEvents |->
                     CASE e = "PreCompact" -> Array(<<ForeignEntry>>)
                       [] e = "UserPromptSubmit" -> Undefined
                       [] e = "Stop" -> Array(<<ForeignEntry, NpxEntry("Stop")>>)])))
  /\ eval.out[2].file.value.keys = {"model"}
  /\ eval.out[2].file.value.hooks.events =
       [e \in HookEvents |->
          CASE e = "PreCompact" -> Array(<<ForeignEntry, OwnEntry("PreCompact")>>)
            [] e = "UserPromptSubmit" -> Array(<<OwnEntry("UserPromptSubmit")>>)
            [] e = "Stop" -> Array(<<ForeignEntry, NpxEntry("Stop")>>)]

====
